---- MODULE Spec2Model ----
(***************************************************************************)
(* CLB box-score automation: the notation parser (BoxScoreNotation.js),    *)
(* the position-history helpers (ScoreUtility) and the bulk processor that *)
(* replays a team's at-bat grid (ScoreTriggers).                           *)
(*                                                                         *)
(* A cell text is a sequence of one-character strings, so that the         *)
(* substring tests and the token patterns of the parser are computed on    *)
(* the characters, as the source computes them.                            *)
(***************************************************************************)
EXTENDS Integers, Sequences, FiniteSets, TLC

(***************************************************************************)
(* Bounds of the model.                                                    *)
(***************************************************************************)
\* players per roster = rows of an at-bat grid (the sheet has 9)
NumPlayers == 3
\* columns (innings) of an at-bat grid (the sheet has 6)
NumInnings == 2
\* the first MaxFilled cells of a replayed grid, in scoring order, may be filled
MaxFilled == 4
\* the same for each of the two grids of a bulk-processor run
MaxBulkFilled == 2
\* bulk-processor runs on one sheet
MaxRuns == 2
\* tokens of a notation the parser is tried on
MaxTokens == 2

\* calculateIP is tried on the outs -MaxOuts..MaxOuts
MaxOuts == 30

\* filled cells of a grid of the fielding replays
MaxFieldFilled == 2

\* changes of a pitcher dropdown in a game that is scored and replayed
MaxGameEdits == 2

(***************************************************************************)
(* Characters and strings.                                                 *)
(***************************************************************************)
Min(a, b) == IF a < b THEN a ELSE b

Digits == <<"0", "1", "2", "3", "4", "5", "6", "7", "8", "9">>

IsDigit(c) == \E i \in 1..10 : Digits[i] = c

\* the character classes \d and [1-9]
AnyDigit == {Digits[i] : i \in 1..10}

Digit19 == AnyDigit \ {"0"}

DigitVal(c) == (CHOOSE i \in 1..10 : Digits[i] = c) - 1

LowerCase == <<"a", "b", "c", "d", "e", "f", "g", "h", "i", "j", "k", "l", "m",
               "n", "o", "p", "q", "r", "s", "t", "u", "v", "w", "x", "y", "z">>

UpperCase == <<"A", "B", "C", "D", "E", "F", "G", "H", "I", "J", "K", "L", "M",
               "N", "O", "P", "Q", "R", "S", "T", "U", "V", "W", "X", "Y", "Z">>

\* String.prototype.toUpperCase, one character
UpperChar(c) ==
    IF \E i \in 1..26 : LowerCase[i] = c
    THEN UpperCase[CHOOSE i \in 1..26 : LowerCase[i] = c]
    ELSE c

toUpperCase(s) == [i \in 1..Len(s) |-> UpperChar(s[i])]

\* String.prototype.trim: drop the leading and the trailing blanks
trim(s) ==
    IF \A i \in 1..Len(s) : s[i] = " "
    THEN <<>>
    ELSE LET first == CHOOSE i \in 1..Len(s) :
                          s[i] # " " /\ \A j \in 1..(i - 1) : s[j] = " "
             last  == CHOOSE i \in 1..Len(s) :
                          s[i] # " " /\ \A j \in (i + 1)..Len(s) : s[j] = " "
         IN  SubSeq(s, first, last)

\* s.indexOf(t) !== -1
Contains(s, t) ==
    \E i \in 1..(Len(s) - Len(t) + 1) : SubSeq(s, i, i + Len(t) - 1) = t

startsWith(s, t) == Len(s) >= Len(t) /\ SubSeq(s, 1, Len(t)) = t

endsWith(s, t) == Len(s) >= Len(t) /\ SubSeq(s, Len(s) - Len(t) + 1, Len(s)) = t

\* character i of s, "" past the end
CharAt(s, i) == IF i \in 1..Len(s) THEN s[i] ELSE ""

\* parseInt of a sequence of digits
RECURSIVE parseInt(_)
parseInt(ds) ==
    IF ds = <<>> THEN 0
    ELSE 10 * parseInt(SubSeq(ds, 1, Len(ds) - 1)) + DigitVal(ds[Len(ds)])

(***************************************************************************)
(* The token patterns  PC\[?(\d)\]?  E\[?([1-9])\]?  NP\[?([1-9])\]?  :    *)
(* a prefix, an optional "[", one character of the class, an optional "]". *)
(* TokenAt gives the place of the class character of a match that starts   *)
(* at i (0 when no match starts there); String.match takes the leftmost.   *)
(* class is the set of the characters of the class.                        *)
(***************************************************************************)
TokenAt(s, i, prefix, class) ==
    IF i + Len(prefix) - 1 > Len(s) \/ SubSeq(s, i, i + Len(prefix) - 1) # prefix
    THEN 0
    ELSE LET j == i + Len(prefix)
         IN  IF CharAt(s, j) = "[" /\ CharAt(s, j + 1) \in class THEN j + 1
             ELSE IF CharAt(s, j) \in class THEN j
             ELSE 0

HasToken(s, prefix, class) ==
    \E i \in 1..Len(s) : TokenAt(s, i, prefix, class) # 0

TokenStart(s, prefix, class) ==
    CHOOSE i \in 1..Len(s) :
        /\ TokenAt(s, i, prefix, class) # 0
        /\ \A j \in 1..(i - 1) : TokenAt(s, j, prefix, class) = 0

\* the captured character of the leftmost match
TokenCapture(s, prefix, class) ==
    s[TokenAt(s, TokenStart(s, prefix, class), prefix, class)]

\* a replace that leaves the text as it is
TokenKept(s, prefix, class) == s

\* s.replace(pattern, ''): s without its leftmost match
TokenRemoved(s, prefix, class) ==
    LET i == TokenStart(s, prefix, class)
        d == TokenAt(s, i, prefix, class)
        e == IF CharAt(s, d + 1) = "]" THEN d + 1 ELSE d
    IN  SubSeq(s, 1, i - 1) \o SubSeq(s, e + 1, Len(s))


(***************************************************************************)
(* parseNotation (BoxScoreNotation.js).                                    *)
(***************************************************************************)
\* the stats object as it is created: every counter 0, every flag false;
\* fielderPosition 0 stands for null
ZeroStats ==
    [BF |-> 0, outs |-> 0, H |-> 0, HR |-> 0, R |-> 0, BB |-> 0, K |-> 0,
     AB |-> 0, TB |-> 0,
     NP |-> FALSE, E |-> FALSE, SB |-> FALSE, CS |-> FALSE, DP |-> FALSE,
     FC |-> FALSE,
     isPitcherChange |-> FALSE, inheritedRunners |-> 0,
     isError |-> FALSE, isNicePlay |-> FALSE, fielderPosition |-> 0]

\* hits where the first check that matches is final
HitBasesFirstWins(value) ==
    IF Contains(value, <<"1", "B">>) THEN 1
    ELSE IF Contains(value, <<"2", "B">>) THEN 2
    ELSE IF Contains(value, <<"3", "B">>) THEN 3
    ELSE IF Contains(value, <<"H", "R">>) THEN 4
    ELSE 0

\* hits: independent checks of 1B, 2B, 3B, HR, a later one overwriting
HitBases(value) ==
    IF Contains(value, <<"H", "R">>) THEN 4
    ELSE IF Contains(value, <<"3", "B">>) THEN 3
    ELSE IF Contains(value, <<"2", "B">>) THEN 2
    ELSE IF Contains(value, <<"1", "B">>) THEN 1
    ELSE 0

\* outs set by the fielder's choice and the sacrifice steps
EarlyOuts(value) ==
    LET fc == IF Contains(value, <<"F", "C">>)
                 /\ (\/ Contains(value, <<"F", "C", " ", "O", "U", "T">>)
                     \/ Contains(value, <<"F", "C", "O", "U", "T">>))
              THEN 1 ELSE 0
    IN  IF Contains(value, <<"S", "F">>) \/ Contains(value, <<"S", "H">>)
        THEN 1 ELSE fc

\* a cascade in which the double play is looked for before the triple play
CascadeOutsDoublePlayFirst(value, outs, K) ==
    IF Contains(value, <<"D", "P">>) THEN 2
    ELSE IF Contains(value, <<"T", "P">>) THEN 3
    ELSE IF Contains(value, <<"O", "U", "T">>) \/ K = 1
         THEN (IF outs = 0 THEN 1 ELSE outs)
    ELSE outs

\* a cascade whose generic out is added to the outs set before
CascadeOutsAdding(value, outs, K) ==
    IF Contains(value, <<"T", "P">>) THEN 3
    ELSE IF Contains(value, <<"D", "P">>) THEN 2
    ELSE IF Contains(value, <<"O", "U", "T">>) \/ K = 1 THEN outs + 1
    ELSE outs

\* a cascade that books an out for a notation it does not know
CascadeOutsDefaultOut(value, outs, K) ==
    IF Contains(value, <<"T", "P">>) THEN 3
    ELSE IF Contains(value, <<"D", "P">>) THEN 2
    ELSE IF outs = 0 THEN 1 ELSE outs

\* outs after the TP > DP > single out cascade
CascadeOuts(value, outs, K) ==
    IF Contains(value, <<"T", "P">>) THEN 3
    ELSE IF Contains(value, <<"D", "P">>) THEN 2
    ELSE IF Contains(value, <<"O", "U", "T">>) \/ K = 1
         THEN (IF outs = 0 THEN 1 ELSE outs)
    ELSE outs

\* a caught stealing that cannot take the outs past three
AddCaughtStealingCapped(outs, cs) == IF cs THEN Min(3, outs + 1) ELSE outs

\* if CS: stats.outs += 1
AddCaughtStealing(outs, cs) == IF cs THEN outs + 1 ELSE outs

\* RBI looked for in the order RBI, 2RBI, 3RBI, 4RBI
RunsBattedInPlainFirst(value) ==
    IF Contains(value, <<"R", "B", "I">>) THEN 1
    ELSE IF Contains(value, <<"2", "R", "B", "I">>) THEN 2
    ELSE IF Contains(value, <<"3", "R", "B", "I">>) THEN 3
    ELSE IF Contains(value, <<"4", "R", "B", "I">>) THEN 4
    ELSE 0

\* an at-bat count that exempts the sacrifice only
AtBatsWalkCounted(isWalk, isSacrifice) == IF ~isSacrifice THEN 1 ELSE 0

\* stats.AB: 1 unless walk or sacrifice
AtBats(isWalk, isSacrifice) == IF ~isWalk /\ ~isSacrifice THEN 1 ELSE 0

RunsBattedIn(value) ==
    IF Contains(value, <<"4", "R", "B", "I">>) THEN 4
    ELSE IF Contains(value, <<"3", "R", "B", "I">>) THEN 3
    ELSE IF Contains(value, <<"2", "R", "B", "I">>) THEN 2
    ELSE IF Contains(value, <<"R", "B", "I">>) THEN 1
    ELSE 0

\* a legacy error flag for any E in the text
LegacyEAnywhere(value) == Contains(value, <<"E">>)

\* the legacy error flag: E as an isolated token
LegacyE(value) ==
    \/ value = <<"E">>
    \/ /\ Len(value) >= 3
       /\ \/ Contains(value, <<" ", "E", " ">>)
          \/ startsWith(value, <<"E", " ">>)
          \/ endsWith(value, <<" ", "E">>)

\* a fielderPosition that the error token sets last
FielderPositionErrorLast(value) ==
    IF HasToken(value, <<"E">>, Digit19)
    THEN DigitVal(TokenCapture(value, <<"E">>, Digit19))
    ELSE IF HasToken(value, <<"N", "P">>, Digit19)
    THEN DigitVal(TokenCapture(value, <<"N", "P">>, Digit19))
    ELSE 0

\* stats.fielderPosition: set by the error token, then by the nice-play
\* token; 0 stands for null
FielderPosition(value) ==
    IF HasToken(value, <<"N", "P">>, Digit19)
    THEN DigitVal(TokenCapture(value, <<"N", "P">>, Digit19))
    ELSE IF HasToken(value, <<"E">>, Digit19)
    THEN DigitVal(TokenCapture(value, <<"E">>, Digit19))
    ELSE 0

\* the at-bat part of the parse, on the upper-cased and trimmed text
ParseAtBat(value, stats) ==
    LET errorMatch == HasToken(value, <<"E">>, Digit19)
        npMatch    == HasToken(value, <<"N", "P">>, Digit19)
        pos        == FielderPosition(value)
        tb         == HitBases(value)
        isWalk     == Contains(value, <<"B", "B">>)
        K          == IF Contains(value, <<"K">>) THEN 1 ELSE 0
        isFC       == Contains(value, <<"F", "C">>)
        fcOut      == \/ Contains(value, <<"F", "C", " ", "O", "U", "T">>)
                      \/ Contains(value, <<"F", "C", "O", "U", "T">>)
        isSacrifice == Contains(value, <<"S", "F">>) \/ Contains(value, <<"S", "H">>)
        cs         == Contains(value, <<"C", "S">>)
        outs       == AddCaughtStealing(CascadeOuts(value, EarlyOuts(value), K), cs)
    IN  [stats EXCEPT
            !.isError = errorMatch,
            !.isNicePlay = npMatch,
            !.fielderPosition = pos,
            !.BF = 1,
            !.H = IF tb > 0 THEN 1 ELSE 0,
            !.TB = tb,
            !.HR = IF tb = 4 THEN 1 ELSE 0,
            !.BB = IF isWalk THEN 1 ELSE 0,
            !.K = K,
            !.FC = isFC /\ ~fcOut,
            !.outs = outs,
            !.DP = Contains(value, <<"T", "P">>) \/ Contains(value, <<"D", "P">>),
            !.SB = Contains(value, <<"S", "B">>),
            !.CS = cs,
            !.R = RunsBattedIn(value),
            !.AB = AtBats(isWalk, isSacrifice),
            !.NP = ~npMatch /\ Contains(value, <<"N", "P">>),
            !.E = ~errorMatch /\ LegacyE(value)]

parseNotation(raw) ==
    IF raw = <<>> THEN ZeroStats
    ELSE
      LET value == trim(toUpperCase(raw))
      IN  IF HasToken(value, <<"P", "C">>, AnyDigit)
          THEN LET stats == [ZeroStats EXCEPT
                               !.isPitcherChange = TRUE,
                               !.inheritedRunners =
                                   DigitVal(TokenCapture(value, <<"P", "C">>, AnyDigit))]
               IN  IF trim(TokenRemoved(value, <<"P", "C">>, AnyDigit)) = <<>>
                   THEN stats
                   ELSE ParseAtBat(value, stats)
          ELSE ParseAtBat(value, ZeroStats)

\* innings pitched without the clamp of negative outs
calculateIPUnclamped(outs) ==
    100 * (outs \div 3)
    + (IF outs % 3 = 1 THEN 33 ELSE IF outs % 3 = 2 THEN 67 ELSE 0)

\* calculateIP, in hundredths of an inning (0.33 is 33, 1.67 is 167)
calculateIP(outs) ==
    LET o == IF outs < 0 THEN 0 ELSE outs
        remainderOuts == o % 3
    IN  100 * (o \div 3)
        + (IF remainderOuts = 1 THEN 33 ELSE IF remainderOuts = 2 THEN 67 ELSE 0)

(***************************************************************************)
(* Position history (ScoreUtility): a position cell holds the positions a  *)
(* player had, separated by "/", the current one last.                     *)
(***************************************************************************)
RECURSIVE split(_, _)
split(s, sep) ==
    IF \A i \in 1..Len(s) : s[i] # sep
    THEN <<s>>
    ELSE LET i == CHOOSE k \in 1..Len(s) :
                      s[k] = sep /\ \A j \in 1..(k - 1) : s[j] # sep
         IN  <<SubSeq(s, 1, i - 1)>> \o split(SubSeq(s, i + 1, Len(s)), sep)

getPositionHistory(positionString) ==
    IF positionString = <<>> THEN <<>>
    ELSE LET value == trim(positionString)
         IN  IF Contains(value, <<"/">>)
             THEN LET parts == split(value, "/")
                  IN  [i \in 1..Len(parts) |-> trim(parts[i])]
             ELSE <<value>>

getCurrentPosition(positionString) ==
    IF positionString = <<>> THEN <<>>
    ELSE LET value == trim(positionString)
         IN  IF Contains(value, <<"/">>)
             THEN LET parts == split(value, "/")
                  IN  trim(parts[Len(parts)])
             ELSE value

(***************************************************************************)
(* The sheet: two rosters of NumPlayers names with their position cells,   *)
(* and one at-bat grid per team.                                           *)
(***************************************************************************)
Teams == {"away", "home"}

Other(team) == IF team = "away" THEN "home" ELSE "away"

Rows == 0..(NumPlayers - 1)

Cols == 0..(NumInnings - 1)

\* no player: JavaScript's null and undefined
null == "null"

\* the text of the fielding position number n (findPlayerByPosition)
positionMap ==
    <<<<"P">>, <<"C">>, <<"1", "B">>, <<"2", "B">>, <<"3", "B">>,
      <<"S", "S">>, <<"L", "F">>, <<"C", "F">>, <<"R", "F">>>>

\* buildRosterMap: the names that have an entry; a name of both rosters
\* keeps the home entry, a name twice in a roster keeps the later row
RosterNames(nm) == {nm[t][i] : t \in Teams, i \in Rows} \ {""}

buildRosterMap(nm, pos) ==
    [n \in RosterNames(nm) |->
        LET t == IF \E i \in Rows : nm["home"][i] = n THEN "home" ELSE "away"
            i == CHOOSE k \in Rows :
                     nm[t][k] = n /\ \A j \in Rows : nm[t][j] = n => j <= k
        IN  [position |-> getCurrentPosition(pos[t][i]),
             team |-> t, batterIndex |-> i]]

\* the order in which the keys of the roster map are enumerated: the order
\* of first insertion, away rows before home rows
KeyOrder(nm, n) ==
    IF \E i \in Rows : nm["away"][i] = n
    THEN CHOOSE k \in Rows :
             nm["away"][k] = n /\ \A j \in Rows : nm["away"][j] = n => k <= j
    ELSE NumPlayers + (CHOOSE k \in Rows :
             nm["home"][k] = n /\ \A j \in Rows : nm["home"][j] = n => k <= j)

\* the first key among matching, null when there is none
FirstKey(nm, matching) ==
    IF matching # {}
    THEN CHOOSE n \in matching :
             \A m \in matching : KeyOrder(nm, n) <= KeyOrder(nm, m)
    ELSE null

\* the batter of a grid row (processTeamAtBats), null when the row has none
BatterOf(nm, rmap, team, r) ==
    FirstKey(nm, {n \in DOMAIN rmap :
                      rmap[n].team = team /\ rmap[n].batterIndex = r})

findPlayerByPosition(nm, rmap, team, position) ==
    IF position \notin 1..9 THEN null
    ELSE FirstKey(nm, {n \in DOMAIN rmap :
                           rmap[n].team = team
                           /\ rmap[n].position = positionMap[position]})

(***************************************************************************)
(* buildPitcherTimeline: slot 0 is the player with a history entry SP,     *)
(* slot n the player with an entry RPn; a later roster row overwrites an   *)
(* earlier one.  A slot nobody fills is not in the domain.                 *)
(***************************************************************************)
IsRP(entry) ==
    /\ Len(entry) >= 3
    /\ SubSeq(entry, 1, 2) = <<"R", "P">>
    /\ \A i \in 3..Len(entry) : IsDigit(entry[i])

\* slots in which a bare P counts as the starter
EntrySlotsBareP(entry) ==
    (IF entry = <<"S", "P">> \/ entry = <<"P">> THEN {0} ELSE {})
    \cup (IF IsRP(entry) THEN {parseInt(SubSeq(entry, 3, Len(entry)))} ELSE {})

\* the timeline slots the history entry names
EntrySlots(entry) ==
    (IF entry = <<"S", "P">> THEN {0} ELSE {})
    \cup (IF IsRP(entry) THEN {parseInt(SubSeq(entry, 3, Len(entry)))} ELSE {})

PlayerSlots(nm, pos, team, i) ==
    IF nm[team][i] = "" \/ pos[team][i] = <<>> THEN {}
    ELSE LET history == getPositionHistory(pos[team][i])
         IN  UNION {EntrySlots(history[j]) : j \in 1..Len(history)}

buildPitcherTimeline(nm, pos, team) ==
    [n \in UNION {PlayerSlots(nm, pos, team, i) : i \in Rows} |->
        nm[team][CHOOSE i \in Rows :
                     /\ n \in PlayerSlots(nm, pos, team, i)
                     /\ \A j \in Rows : n \in PlayerSlots(nm, pos, team, j) => j <= i]]

\* pitcherTimeline[index], undefined for a slot nobody fills
TimelineAt(timeline, index) ==
    IF index \in DOMAIN timeline THEN timeline[index] ELSE null

(***************************************************************************)
(* Player accumulators: playerStats maps a name to its entry, an entry     *)
(* maps "pitching", "hitting", "fielding" to a record of running sums.     *)
(* A name without entry is not in the domain of playerStats, a missing     *)
(* sub-record is not in the domain of the entry.                           *)
(***************************************************************************)
EmptyObject == [x \in {} |-> 0]

ZeroPitching == [BF |-> 0, outs |-> 0, H |-> 0, HR |-> 0, R |-> 0, BB |-> 0, K |-> 0]

ZeroHitting ==
    [AB |-> 0, H |-> 0, HR |-> 0, RBI |-> 0, BB |-> 0, K |-> 0, ROB |-> 0,
     DP |-> 0, TB |-> 0]

ZeroFielding == [NP |-> 0, E |-> 0, SB |-> 0]

Has(ps, n, part) == n \in DOMAIN ps /\ part \in DOMAIN ps[n]

\* playerStats[n][part] = rec
Put(ps, n, part, rec) ==
    LET entry == IF n \in DOMAIN ps THEN ps[n] ELSE EmptyObject
    IN  (n :> ((part :> rec) @@ entry)) @@ ps

\* if (!playerStats[n]) playerStats[n] = {}; if (!playerStats[n][part]) ... = zero
Ensure(ps, n, part, zero) == IF Has(ps, n, part) THEN ps ELSE Put(ps, n, part, zero)

\* the hitting increments of one at-bat
ApplyHitting(ps, batterName, stats) ==
    LET h == ps[batterName]["hitting"]
    IN  Put(ps, batterName, "hitting",
            [h EXCEPT !.AB = @ + stats.AB, !.H = @ + stats.H, !.HR = @ + stats.HR,
                      !.RBI = @ + stats.R, !.BB = @ + stats.BB, !.K = @ + stats.K,
                      !.DP = @ + (IF stats.DP THEN 1 ELSE 0), !.TB = @ + stats.TB])

\* every run of the at-bat taken as inherited, however few runners were carried
RunsToInheritUncapped(R, runners) == R

\* Math.min(stats.R, inheritedRunners)
RunsToInherit(R, runners) == Min(R, runners)

AddRuns(ps, n, k) ==
    Put(ps, n, "pitching", [ps[n]["pitching"] EXCEPT !.R = @ + k])

\* a run attribution that forgets the runs beyond the inherited ones
ApplyRunsExcessLost(ps, active, previous, stats, runners) ==
    IF stats.R > 0
    THEN IF runners > 0
         THEN IF previous # null /\ Has(ps, previous, "pitching")
              THEN AddRuns(ps, previous, RunsToInherit(stats.R, runners))
              ELSE ps
         ELSE AddRuns(ps, active, stats.R)
    ELSE ps

\* the run attribution of one at-bat, the active pitcher having a record
ApplyRuns(ps, active, previous, stats, runners) ==
    IF stats.R > 0
    THEN IF runners > 0
         THEN LET runsToInherit == RunsToInherit(stats.R, runners)
                  ps1 == IF previous # null /\ Has(ps, previous, "pitching")
                         THEN AddRuns(ps, previous, runsToInherit)
                         ELSE ps
              IN  AddRuns(ps1, active, stats.R - runsToInherit)
         ELSE AddRuns(ps, active, stats.R)
    ELSE ps

\* inheritedRunners after the run attribution
RunnersAfter(active, stats, runners) ==
    IF active # null /\ stats.R > 0 /\ runners > 0
    THEN runners - RunsToInherit(stats.R, runners)
    ELSE runners

\* pitching increments that go to the pitcher who left, once there is one
ApplyPitchingToPrevious(ps, active, previous, stats, runners) ==
    LET target == IF previous # null /\ Has(ps, previous, "pitching")
                  THEN previous ELSE active
    IN  IF target # null /\ Has(ps, target, "pitching")
        THEN LET p == ps[target]["pitching"]
                 ps1 == Put(ps, target, "pitching",
                            [p EXCEPT !.BF = @ + stats.BF, !.outs = @ + stats.outs,
                                      !.H = @ + stats.H, !.HR = @ + stats.HR,
                                      !.BB = @ + stats.BB, !.K = @ + stats.K])
             IN  IF active # null THEN ApplyRuns(ps1, active, previous, stats, runners)
                 ELSE ps1
        ELSE ps

\* the pitching increments of one at-bat, to the active pitcher
ApplyPitching(ps, active, previous, stats, runners) ==
    IF active # null /\ Has(ps, active, "pitching")
    THEN LET p == ps[active]["pitching"]
             ps1 == Put(ps, active, "pitching",
                        [p EXCEPT !.BF = @ + stats.BF, !.outs = @ + stats.outs,
                                  !.H = @ + stats.H, !.HR = @ + stats.HR,
                                  !.BB = @ + stats.BB, !.K = @ + stats.K])
         IN  ApplyRuns(ps1, active, previous, stats, runners)
    ELSE ps

\* a nice play that gives the batter no ROB
ApplyFieldingNoRobbery(ps, nm, rmap, fieldingTeam, batterName, stats) ==
    LET fielder == findPlayerByPosition(nm, rmap, fieldingTeam, stats.fielderPosition)
        ps1 == IF stats.isNicePlay /\ stats.fielderPosition # 0 /\ fielder # null
               THEN LET a == Ensure(ps, fielder, "fielding", ZeroFielding)
                    IN  Put(a, fielder, "fielding",
                            [a[fielder]["fielding"] EXCEPT !.NP = @ + 1])
               ELSE ps
    IN  IF stats.isError /\ stats.fielderPosition # 0 /\ fielder # null
        THEN LET a == Ensure(ps1, fielder, "fielding", ZeroFielding)
             IN  Put(a, fielder, "fielding",
                     [a[fielder]["fielding"] EXCEPT !.E = @ + 1])
        ELSE ps1

\* nice play and error, credited to the fielder who holds the position
ApplyFielding(ps, nm, rmap, fieldingTeam, batterName, stats) ==
    LET fielder == findPlayerByPosition(nm, rmap, fieldingTeam, stats.fielderPosition)
        ps1 == IF stats.isNicePlay /\ stats.fielderPosition # 0 /\ fielder # null
               THEN LET a == Ensure(ps, fielder, "fielding", ZeroFielding)
                        b == Put(a, fielder, "fielding",
                                 [a[fielder]["fielding"] EXCEPT !.NP = @ + 1])
                    IN  Put(b, batterName, "hitting",
                            [b[batterName]["hitting"] EXCEPT !.ROB = @ + 1])
               ELSE ps
    IN  IF stats.isError /\ stats.fielderPosition # 0 /\ fielder # null
        THEN LET a == Ensure(ps1, fielder, "fielding", ZeroFielding)
             IN  Put(a, fielder, "fielding",
                     [a[fielder]["fielding"] EXCEPT !.E = @ + 1])
        ELSE ps1

\* a stolen base nobody is charged with
ApplyStolenBaseDropped(ps, batterName, stats) == ps

ApplyStolenBase(ps, batterName, stats) ==
    IF stats.SB
    THEN Put(ps, batterName, "fielding",
             [ps[batterName]["fielding"] EXCEPT !.SB = @ + 1])
    ELSE ps

\* an at-bat that is passed over whole while no pitcher is active
ApplyAtBatNeedsPitcher(ps, nm, rmap, fieldingTeam, batterName, active, previous, stats, runners) ==
    IF active = null THEN ps
    ELSE LET ps1 == Ensure(Ensure(ps, batterName, "hitting", ZeroHitting),
                           batterName, "fielding", ZeroFielding)
             ps2 == Ensure(ps1, active, "pitching", ZeroPitching)
             ps3 == ApplyHitting(ps2, batterName, stats)
             ps4 == ApplyPitching(ps3, active, previous, stats, runners)
             ps5 == ApplyFielding(ps4, nm, rmap, fieldingTeam, batterName, stats)
         IN  ApplyStolenBase(ps5, batterName, stats)

\* playerStats after the at-bat of batterName, in the order of the source
ApplyAtBat(ps, nm, rmap, fieldingTeam, batterName, active, previous, stats, runners) ==
    LET ps1 == Ensure(Ensure(ps, batterName, "hitting", ZeroHitting),
                      batterName, "fielding", ZeroFielding)
        ps2 == IF active # null THEN Ensure(ps1, active, "pitching", ZeroPitching)
               ELSE ps1
        ps3 == ApplyHitting(ps2, batterName, stats)
        ps4 == ApplyPitching(ps3, active, previous, stats, runners)
        ps5 == ApplyFielding(ps4, nm, rmap, fieldingTeam, batterName, stats)
    IN  ApplyStolenBase(ps5, batterName, stats)

\* a pitcher-advance that passes over a slot of the timeline
NextPitcherIndexSkipping(index) == index + 2

\* the pitcher-advance transition of a pitching-change marker
NextPitcherIndex(index) == index + 1

\* runners that stay carried into the next column
EndOfInningRunnersKept(runners) == runners

\* inheritedRunners at the end of a column
EndOfInningRunners(runners) == 0

(***************************************************************************)
(* State.                                                                  *)
(***************************************************************************)
VARIABLES
    names,             \* the sheet: names[team][i], "" for a blank name cell
    positions,         \* the sheet: positions[team][i], the position cells
    grid,              \* the sheet: grid[team][row][col], the at-bat cells
    sheetStats,        \* the sheet: the stat blocks, per team and roster row
    rosterMap,         \* processGameStatsBulkBackground: rosterMap
    playerStats,       \* processGameStatsBulkBackground: playerStats
    battingTeam,       \* processTeamAtBats: the team whose grid is replayed
    pitcherTimeline,   \* processTeamAtBats: timeline of the fielding team
    pitcherIndex,
    activePitcher,
    previousPitcher,
    inheritedRunners,
    col,               \* processTeamAtBats: the loop counters
    row,
    pc,                \* "idle", "cells" (inside the loops) or "returned"
    outcome,           \* processTeamAtBats: var stats, what parseNotation
                       \* returned for the last cell it was called on
    finalState,        \* the value processTeamAtBats returned
    runs,              \* bulk-processor runs completed
    outputs,           \* what each completed run produced
    handoff,           \* history of the last pitching change of the replay:
                       \* who left and who came, the runners carried, the run
                       \* totals of both at that moment, the runs scored since;
                       \* open while the inning of the change lasts
    ipOuts,            \* calculateIP: the argument outs
    ipValue,           \* calculateIP: the value returned, in hundredths
    pitcherCell,       \* the pitcher dropdowns, cells D3 (away) and D4 (home)
    edit,              \* history of the last edit of a pitcher dropdown: the
                       \* event and the sheet as it lay before the handler
    appendCall,        \* appendPosition: the arguments and the value returned
    scriptLock,        \* LockService.getScriptLock(): the execution holding it
    onEditState,       \* the executions of onEdit, one per edit event
    replayCall         \* a call of processTeamAtBats: its arguments as given, its error

vars ==
    <<names, positions, grid, sheetStats, rosterMap, playerStats, battingTeam,
      pitcherTimeline, pitcherIndex, activePitcher, previousPitcher,
      inheritedRunners, col, row, pc, outcome, finalState, runs, outputs, handoff,
      ipOuts, ipValue, pitcherCell, edit, appendCall, scriptLock, onEditState,
      replayCall>>

sheetVars == <<names, positions, grid, sheetStats>>

bulkVars == <<rosterMap, runs, outputs>>

\* what the bulk processor and its replays never touch
auxVars ==
    <<ipOuts, ipValue, pitcherCell, edit, appendCall, scriptLock, onEditState,
      replayCall>>

\* what only the calls of appendPosition and the lock-guarded onEdit touch
callVars == <<appendCall, scriptLock, onEditState, replayCall>>

\* appendPosition has not been called
NoCall == [currentValue |-> <<>>, newPosition |-> <<>>, result |-> <<"?">>]

\* processTeamAtBats is called by the bulk processor, with the grid and the
\* roster map it has read from the sheet
NoReplayCall == [atBatGrid |-> <<>>, rosterMap |-> "object", error |-> "none"]

\* no onEdit is executing and the script lock is free
NoCalls ==
    /\ appendCall = NoCall
    /\ scriptLock = <<>>
    /\ onEditState = <<>>
    /\ replayCall = NoReplayCall

\* no pitcher dropdown has been edited
NoEdit ==
    [count |-> 0, cell |-> "none", oldValue |-> "", newValue |-> "",
     positions |-> <<>>, grid |-> <<>>]

\* both dropdowns empty, as on a sheet whose pitchers are not yet chosen
NoPitcherCells == [away |-> "", home |-> ""]

\* calculateIP has not been called, no dropdown has been edited
NoAux ==
    /\ ipOuts = 0
    /\ ipValue = 0
    /\ pitcherCell = NoPitcherCells
    /\ edit = NoEdit
    /\ NoCalls

(***************************************************************************)
(* The inputs the model enumerates.                                        *)
(***************************************************************************)
PlayerNames ==
    [away |-> <<"a0", "a1", "a2", "a3", "a4", "a5">>,
     home |-> <<"h0", "h1", "h2", "h3", "h4", "h5">>]

FullNames(team) == [i \in Rows |-> PlayerNames[team][i + 1]]

\* the roster with the name cell of row 1 left blank
BlankRowNames(team) == [i \in Rows |-> IF i = 1 THEN "" ELSE PlayerNames[team][i + 1]]

\* position columns: rows 0, 1, 2 as given, every further row at LF
PositionColumn(p0, p1, p2) ==
    [i \in Rows |-> IF i = 0 THEN p0 ELSE IF i = 1 THEN p1
                    ELSE IF i = 2 THEN p2 ELSE <<"L", "F">>]

P_SP == <<"S", "P">>

P_C == <<"C">>

P_SS == <<"S", "S">>

\* "SP / C", "C / RP1", "SS / RP2": a starter and two relief pitchers
FullTimelineColumn ==
    PositionColumn(<<"S", "P", " ", "/", " ", "C">>,
                   <<"C", " ", "/", " ", "R", "P", "1">>,
                   <<"S", "S", " ", "/", " ", "R", "P", "2">>)

\* "SP", "C", "SS / RP2": relief number 1 skipped
GapTimelineColumn ==
    PositionColumn(P_SP, P_C, <<"S", "S", " ", "/", " ", "R", "P", "2">>)

\* "P / C", "C / RP1", "SS": the starter never marked SP, one relief pitcher
NoStarterColumn ==
    PositionColumn(<<"P", " ", "/", " ", "C">>,
                   <<"C", " ", "/", " ", "R", "P", "1">>, P_SS)

\* "SP", "C", "SS": nobody has relieved
FreshColumn == PositionColumn(P_SP, P_C, P_SS)

\* "P", "C", "SS": as the sheet is set up, before any run
SetupColumn == PositionColumn(<<"P">>, P_C, P_SS)

N_K_SB == <<"K", " ", "S", "B">>

N_1B_RBI == <<"1", "B", " ", "R", "B", "I">>

N_HR_2RBI == <<"H", "R", " ", "2", "R", "B", "I">>

N_PC1 == <<"P", "C", "1">>

N_1B_RBI_PC2 == <<"1", "b", " ", "r", "b", "i", " ", "p", "c", "[", "2", "]">>

N_OUT_E1 == <<"O", "U", "T", " ", "E", "1">>

\* the cell texts of a replayed grid: blank, "K SB", "1B RBI", "HR 2RBI",
\* "PC1" and "1b rbi pc[2]"
ReplayNotations == {<<>>, N_K_SB, N_1B_RBI, N_HR_2RBI, N_PC1, N_1B_RBI_PC2}

(***************************************************************************)
(* The notations the parser is tried on: nothing, blanks, and one to       *)
(* MaxTokens tokens of the scoring shorthand joined by single blanks.      *)
(***************************************************************************)
\* 1B 2B 3B HR BB K FC "FC OUT" FCOUT SF SH TP DP OUT SB CS RBI 1RBI 2RBI
\* 3RBI 4RBI PC0 PC[2] pc1 PC9 E6 NP5 and X, which is no shorthand
NotationTokens ==
    {<<"1", "B">>, <<"2", "B">>, <<"3", "B">>, <<"H", "R">>, <<"B", "B">>,
     <<"K">>, <<"F", "C">>, <<"F", "C", " ", "O", "U", "T">>,
     <<"F", "C", "O", "U", "T">>, <<"S", "F">>, <<"S", "H">>, <<"T", "P">>,
     <<"D", "P">>, <<"O", "U", "T">>, <<"S", "B">>, <<"C", "S">>,
     <<"R", "B", "I">>, <<"1", "R", "B", "I">>, <<"2", "R", "B", "I">>,
     <<"3", "R", "B", "I">>, <<"4", "R", "B", "I">>, <<"P", "C", "0">>,
     <<"P", "C", "[", "2", "]">>, <<"p", "c", "1">>, <<"P", "C", "9">>,
     <<"E", "6">>, <<"N", "P", "5">>, <<"X">>}

\* the tokens of ts, a blank between two of them
RECURSIVE JoinTokens(_)
JoinTokens(ts) ==
    IF Len(ts) = 0 THEN <<>>
    ELSE IF Len(ts) = 1 THEN ts[1]
    ELSE ts[1] \o <<" ">> \o JoinTokens(Tail(ts))

\* "", " ", "  " and " PC0 "
BlankInputs == {<<>>, <<" ">>, <<" ", " ">>, <<" ", "P", "C", "0", " ">>}

\* E NP E6 NP5 E[4] NP0 E0 OUT 1B and XE: the fielding tokens with and
\* without a position, and an E inside a longer word
FieldingTokens ==
    {<<"E">>, <<"N", "P">>, <<"E", "6">>, <<"N", "P", "5">>,
     <<"E", "[", "4", "]">>, <<"N", "P", "0">>, <<"E", "0">>,
     <<"O", "U", "T">>, <<"1", "B">>, <<"X", "E">>, <<"P", "C", "1">>}

ParserInputs ==
    BlankInputs
    \cup {JoinTokens(ts) : ts \in UNION {[1..n -> NotationTokens] : n \in 1..MaxTokens}}

\* one to MaxTokens tokens of the fielding shorthand joined by single blanks
FieldingInputs ==
    {JoinTokens(ts) : ts \in UNION {[1..n -> FieldingTokens] : n \in 1..MaxTokens}}

N_OUT_NP2 == <<"O", "U", "T", " ", "N", "P", "2">>

N_1B_E6 == <<"1", "B", " ", "E", "6">>

N_OUT_E6_NP2 == <<"O", "U", "T", " ", "E", "6", " ", "N", "P", "2">>

N_OUT_NP2_E6 == <<"O", "U", "T", " ", "N", "P", "2", " ", "E", "6">>

N_OUT_NP5 == <<"O", "U", "T", " ", "N", "P", "5">>

\* the cell texts of the fielding replays: nothing, "OUT NP2", "1B E6",
\* "OUT E6 NP2", "OUT NP2 E6", "OUT NP5", "OUT E1", "K SB" and "PC1"
FieldNotations ==
    {<<>>, N_OUT_NP2, N_1B_E6, N_OUT_E6_NP2, N_OUT_NP2_E6, N_OUT_NP5, N_OUT_E1,
     N_K_SB, N_PC1}

N_BB == <<"B", "B">>

\* the cell texts of the replays whose totals are compared: nothing,
\* "HR 2RBI", "1b rbi pc[2]", "PC1", "OUT NP2" and "BB"
TotalsNotations == {<<>>, N_HR_2RBI, N_1B_RBI_PC2, N_PC1, N_OUT_NP2, N_BB}

\* the texts the replayed grids are filled with
GridNotations == ReplayNotations \cup {N_OUT_E1} \cup FieldNotations \cup TotalsNotations

ParsedNotation == [v \in GridNotations |-> parseNotation(v)]

\* parseNotation over the inputs of the parser
\* filed under the length and the first character of the text
ParsedInput ==
    LET inputs == ParserInputs \cup FieldingInputs
    IN  [n \in {Len(v) : v \in inputs} |->
            [c \in {CharAt(v, 1) : v \in {w \in inputs : Len(w) = n}} |->
                [v \in {w \in inputs : Len(w) = n /\ CharAt(w, 1) = c} |->
                    parseNotation(v)]]]

\* the markers autoInsertPitcherChange appends for the counts ds
RECURSIVE MarkersText(_)
MarkersText(ds) ==
    IF ds = <<>> THEN <<>>
    ELSE <<" ", "P", "C", Digits[ds[1] + 1]>> \o MarkersText(Tail(ds))

\* the texts of a cell of a scored game: the single the scorer entered,
\* followed by the markers of up to MaxGameEdits dropdown changes
GameTexts ==
    {<<"1", "B">> \o MarkersText(ds) :
         ds \in UNION {[1..n -> 0..3] : n \in 0..MaxGameEdits}}

ParsedGameText == [v \in GameTexts |-> parseNotation(v)]

\* parseNotation(text), looked up where it is tabulated
NotationStats(text) ==
    IF text \in GridNotations THEN ParsedNotation[text]
    ELSE IF text \in GameTexts THEN ParsedGameText[text]
    ELSE ParsedInput[Len(text)][CharAt(text, 1)][text]

EmptyGrid == [r \in Rows |-> [c \in Cols |-> <<>>]]

\* the grids whose first m cells, in scoring order, are taken from texts
Grids(m, texts) ==
    LET n == Min(m, NumPlayers * NumInnings)
    IN  {[r \in Rows |-> [c \in Cols |->
             IF c * NumPlayers + r < n THEN f[c * NumPlayers + r] ELSE <<>>]] :
         f \in [0..(n - 1) -> texts]}

ZeroSheetStats ==
    [t \in Teams |-> [i \in Rows |->
        [pitching |-> <<0, 0, 0, 0, 0, 0, 0>>, fielding |-> <<0, 0, 0>>,
         hitting |-> <<0, 0, 0, 0, 0, 0, 0, 0, 0>>]]]

\* handoff before the first pitching change of a replay
NoHandoff ==
    [made |-> FALSE, open |-> FALSE, from |-> null, to |-> null, carried |-> 0,
     fromHasRecord |-> FALSE, fromRuns |-> 0, toRuns |-> 0, scored |-> 0]

\* the locals of processTeamAtBats at its entry
EnterTeam(team, nm, pos) ==
    LET timeline == buildPitcherTimeline(nm, pos, Other(team))
    IN  /\ battingTeam' = team
        /\ pitcherTimeline' = timeline
        /\ pitcherIndex' = 0
        /\ activePitcher' = TimelineAt(timeline, 0)
        /\ previousPitcher' = null
        /\ inheritedRunners' = 0
        /\ col' = 0
        /\ row' = 0
        /\ pc' = "cells"
        /\ handoff' = NoHandoff

\* the locals of processTeamAtBats at its entry, as equalities on the state
AtTeamEntry(team) ==
    /\ battingTeam = team
    /\ pitcherTimeline = buildPitcherTimeline(names, positions, Other(team))
    /\ pitcherIndex = 0
    /\ activePitcher = TimelineAt(pitcherTimeline, 0)
    /\ previousPitcher = null
    /\ inheritedRunners = 0
    /\ col = 0
    /\ row = 0
    /\ pc = "cells"
    /\ handoff = NoHandoff

\* the bulk processor has cleared the stats, built the roster map, emptied
\* playerStats and enters processTeamAtBats for the away grid
Init ==
    /\ names \in {[t \in Teams |-> FullNames(t)],
                  [t \in Teams |-> IF t = "away" THEN BlankRowNames(t)
                                   ELSE FullNames(t)]}
    /\ \E column \in {FullTimelineColumn, GapTimelineColumn, NoStarterColumn} :
           positions = [t \in Teams |-> IF t = "away" THEN FreshColumn ELSE column]
    /\ sheetStats = ZeroSheetStats
    /\ rosterMap = buildRosterMap(names, positions)
    /\ playerStats = EmptyObject
    /\ AtTeamEntry("away")
    /\ outcome = ZeroStats
    /\ NoAux
    /\ finalState = [activePitcher |-> null, inheritedRunners |-> 0]
    /\ runs = 0
    /\ outputs = <<>>
    /\ \E g \in Grids(MaxFilled, ReplayNotations) :
           grid = [t \in Teams |-> IF t = "away" THEN g ELSE EmptyGrid]

fieldingTeam == Other(battingTeam)

\* the cell the loops are at
value == grid[battingTeam][row][col]

\* var stats = parseNotation(value)
stats == NotationStats(value)

InCell == pc = "cells" /\ col < NumInnings /\ row < NumPlayers

isStandalonePitcherChange == stats.isPitcherChange /\ stats.BF = 0

batterName == BatterOf(names, rosterMap, battingTeam, row)

(***************************************************************************)
(* processTeamAtBats, one action per cell of the grid.                     *)
(***************************************************************************)
\* the pitcher-advance transition, the same for both kinds of marker
PitcherChange(ps) ==
    LET index == NextPitcherIndex(pitcherIndex)
        next == TimelineAt(pitcherTimeline, index)
        RunsOf(n) == IF n # null /\ Has(ps, n, "pitching") THEN ps[n]["pitching"].R ELSE 0
    IN  /\ previousPitcher' = activePitcher
        /\ pitcherIndex' = index
        /\ activePitcher' = next
        /\ inheritedRunners' = stats.inheritedRunners
        /\ handoff' = [made |-> TRUE, open |-> TRUE,
                       from |-> activePitcher, to |-> next,
                       carried |-> stats.inheritedRunners,
                       fromHasRecord |-> activePitcher # null
                                         /\ Has(ps, activePitcher, "pitching"),
                       fromRuns |-> RunsOf(activePitcher), toRuns |-> RunsOf(next),
                       scored |-> 0]

\* if (!value || value === "") continue;
SkipEmptyCell ==
    /\ InCell
    /\ value = <<>>
    /\ row' = row + 1
    /\ UNCHANGED <<sheetVars, bulkVars, playerStats, battingTeam, pitcherTimeline,
                   pitcherIndex, activePitcher, previousPitcher, inheritedRunners,
                   col, pc, finalState, handoff>>
    /\ UNCHANGED outcome
    /\ UNCHANGED auxVars

\* a standalone marker that opens the pitching record of the pitcher coming in
StandalonePitcherChangeOpensRecord ==
    /\ InCell
    /\ value # <<>>
    /\ isStandalonePitcherChange
    /\ PitcherChange(playerStats)
    /\ LET next == TimelineAt(pitcherTimeline, NextPitcherIndex(pitcherIndex))
       IN  playerStats' = IF next # null
                          THEN Ensure(playerStats, next, "pitching", ZeroPitching)
                          ELSE playerStats
    /\ row' = row + 1
    /\ UNCHANGED <<sheetVars, bulkVars, battingTeam, pitcherTimeline, col, pc,
                   finalState>>
    /\ outcome' = stats
    /\ UNCHANGED auxVars

\* a cell that holds a pitching-change marker and nothing else
StandalonePitcherChange ==
    /\ InCell
    /\ value # <<>>
    /\ isStandalonePitcherChange
    /\ PitcherChange(playerStats)
    /\ row' = row + 1
    /\ UNCHANGED <<sheetVars, bulkVars, playerStats, battingTeam, pitcherTimeline,
                   col, pc, finalState>>
    /\ outcome' = stats
    /\ UNCHANGED auxVars

\* a cell without batter whose pitching-change marker is honoured all the same
SkipNoBatterChangingPitcher ==
    /\ InCell
    /\ value # <<>>
    /\ ~isStandalonePitcherChange
    /\ batterName = null
    /\ IF stats.isPitcherChange
       THEN PitcherChange(playerStats)
       ELSE UNCHANGED <<pitcherIndex, activePitcher, previousPitcher, inheritedRunners,
                        handoff>>
    /\ row' = row + 1
    /\ UNCHANGED <<sheetVars, bulkVars, playerStats, battingTeam, pitcherTimeline,
                   col, pc, finalState>>
    /\ outcome' = stats
    /\ UNCHANGED auxVars

\* if (batterNames.length === 0) continue;
SkipNoBatter ==
    /\ InCell
    /\ value # <<>>
    /\ ~isStandalonePitcherChange
    /\ batterName = null
    /\ row' = row + 1
    /\ UNCHANGED <<sheetVars, bulkVars, playerStats, battingTeam, pitcherTimeline,
                   pitcherIndex, activePitcher, previousPitcher, inheritedRunners,
                   col, pc, finalState, handoff>>
    /\ outcome' = stats
    /\ UNCHANGED auxVars

\* an at-bat whose pitching change is made before its stats are applied
AtBatChangeFirst ==
    /\ InCell
    /\ value # <<>>
    /\ ~isStandalonePitcherChange
    /\ batterName # null
    /\ LET change == stats.isPitcherChange
           next == TimelineAt(pitcherTimeline, NextPitcherIndex(pitcherIndex))
           ps == ApplyAtBat(playerStats, names, rosterMap, fieldingTeam, batterName,
                            IF change THEN next ELSE activePitcher,
                            IF change THEN activePitcher ELSE previousPitcher,
                            stats,
                            IF change THEN stats.inheritedRunners ELSE inheritedRunners)
       IN  /\ playerStats' = ps
           /\ IF change
              THEN PitcherChange(playerStats)
              ELSE /\ inheritedRunners' =
                          RunnersAfter(activePitcher, stats, inheritedRunners)
                   /\ handoff' = IF handoff.open
                                 THEN [handoff EXCEPT !.scored = @ + stats.R]
                                 ELSE handoff
                   /\ UNCHANGED <<pitcherIndex, activePitcher, previousPitcher>>
    /\ row' = row + 1
    /\ UNCHANGED <<sheetVars, bulkVars, battingTeam, pitcherTimeline, col, pc,
                   finalState>>
    /\ outcome' = stats
    /\ UNCHANGED auxVars

\* an at-bat, with or without a pitching-change marker appended
AtBat ==
    /\ InCell
    /\ value # <<>>
    /\ ~isStandalonePitcherChange
    /\ batterName # null
    /\ LET ps == ApplyAtBat(playerStats, names, rosterMap, fieldingTeam, batterName,
                            activePitcher, previousPitcher, stats, inheritedRunners)
       IN  /\ playerStats' = ps
           /\ IF stats.isPitcherChange
              THEN PitcherChange(ps)
              ELSE /\ inheritedRunners' =
                          RunnersAfter(activePitcher, stats, inheritedRunners)
                   /\ handoff' = IF handoff.open
                                 THEN [handoff EXCEPT !.scored = @ + stats.R]
                                 ELSE handoff
                   /\ UNCHANGED <<pitcherIndex, activePitcher, previousPitcher>>
    /\ row' = row + 1
    /\ UNCHANGED <<sheetVars, bulkVars, battingTeam, pitcherTimeline, col, pc,
                   finalState>>
    /\ outcome' = stats
    /\ UNCHANGED auxVars

\* the end of the inner loop: inheritedRunners = 0, next column
EndColumn ==
    /\ pc = "cells"
    /\ col < NumInnings
    /\ row = NumPlayers
    /\ inheritedRunners' = EndOfInningRunners(inheritedRunners)
    /\ col' = col + 1
    /\ row' = 0
    /\ handoff' = [handoff EXCEPT !.open = FALSE]
    /\ UNCHANGED <<sheetVars, bulkVars, playerStats, battingTeam, pitcherTimeline,
                   pitcherIndex, activePitcher, previousPitcher, pc, finalState>>
    /\ UNCHANGED outcome
    /\ UNCHANGED auxVars

\* return {activePitcher, inheritedRunners}
Return ==
    /\ pc = "cells"
    /\ col = NumInnings
    /\ finalState' = [activePitcher |-> activePitcher,
                      inheritedRunners |-> inheritedRunners]
    /\ pc' = "returned"
    /\ UNCHANGED <<sheetVars, bulkVars, playerStats, battingTeam, pitcherTimeline,
                   pitcherIndex, activePitcher, previousPitcher, inheritedRunners,
                   col, row, handoff>>
    /\ UNCHANGED outcome
    /\ UNCHANGED auxVars

Next ==
    \/ SkipEmptyCell
    \/ StandalonePitcherChange
    \/ SkipNoBatter
    \/ AtBat
    \/ EndColumn
    \/ Return

Spec == Init /\ [][Next]_vars

(***************************************************************************)
(* The parser inside the replay: the first cell of the away grid holds     *)
(* one of the parser inputs, the next two cells a scoring single each.     *)
(* The away roster has no name in row 1, the home team a starter and two   *)
(* relief pitchers.                                                        *)
(***************************************************************************)
ParseGrid(text) ==
    [r \in Rows |-> [c \in Cols |->
        IF c = 0 /\ r = 0 THEN text
        ELSE IF c = 0 /\ r \in {1, 2} THEN N_1B_RBI
        ELSE <<>>]]

ParseInitOver(inputs) ==
    /\ names = [t \in Teams |-> IF t = "away" THEN BlankRowNames(t) ELSE FullNames(t)]
    /\ positions = [t \in Teams |-> IF t = "away" THEN FreshColumn
                                     ELSE FullTimelineColumn]
    /\ sheetStats = ZeroSheetStats
    /\ rosterMap = buildRosterMap(names, positions)
    /\ playerStats = EmptyObject
    /\ AtTeamEntry("away")
    /\ outcome = ZeroStats
    /\ NoAux
    /\ finalState = [activePitcher |-> null, inheritedRunners |-> 0]
    /\ runs = 0
    /\ outputs = <<>>
    /\ \E text \in inputs :
           grid = [t \in Teams |-> IF t = "away" THEN ParseGrid(text) ELSE EmptyGrid]

ParseInit == ParseInitOver(ParserInputs)

ParseSpec == ParseInit /\ [][Next]_vars

\* the same replay with the first cell drawn from the fielding shorthand
FieldingParseInit == ParseInitOver(FieldingInputs)

FieldingParseSpec == FieldingParseInit /\ [][Next]_vars

(***************************************************************************)
(* The fielding credit inside the replay: the away grid holds cells with   *)
(* error, nice-play and stolen-base tokens, the home team fields with the  *)
(* positions as set up ("P", "C", "SS"), as normalised ("SP", "C", "SS"),  *)
(* or after a pitcher swap ("SP / C", "C / RP1", "SS").                    *)
(***************************************************************************)
\* "SP / C", "C / RP1", "SS": the starter has swapped with the catcher
SwappedColumn ==
    PositionColumn(<<"S", "P", " ", "/", " ", "C">>,
                   <<"C", " ", "/", " ", "R", "P", "1">>, P_SS)

FieldColumns == {SetupColumn, FreshColumn, SwappedColumn}

FieldInit ==
    /\ names \in {[t \in Teams |-> FullNames(t)],
                  [t \in Teams |-> IF t = "away" THEN BlankRowNames(t)
                                   ELSE FullNames(t)]}
    /\ \E column \in FieldColumns :
           positions = [t \in Teams |-> IF t = "away" THEN FreshColumn ELSE column]
    /\ sheetStats = ZeroSheetStats
    /\ rosterMap = buildRosterMap(names, positions)
    /\ playerStats = EmptyObject
    /\ AtTeamEntry("away")
    /\ outcome = ZeroStats
    /\ NoAux
    /\ finalState = [activePitcher |-> null, inheritedRunners |-> 0]
    /\ runs = 0
    /\ outputs = <<>>
    /\ \E g \in Grids(MaxFieldFilled, FieldNotations) :
           grid = [t \in Teams |-> IF t = "away" THEN g ELSE EmptyGrid]

FieldSpec == FieldInit /\ [][Next]_vars

(***************************************************************************)
(* The totals of a replay: the away grid holds home runs, walks, nice      *)
(* plays, runs batted in and markers, the home team fields with a full, a  *)
(* gapped, a starterless or an empty pitcher timeline.                     *)
(***************************************************************************)
MaxTotalsFilled == 3

TotalsColumns ==
    {FullTimelineColumn, GapTimelineColumn, NoStarterColumn, SetupColumn}

TotalsInit ==
    /\ names \in {[t \in Teams |-> FullNames(t)],
                  [t \in Teams |-> IF t = "away" THEN BlankRowNames(t)
                                   ELSE FullNames(t)]}
    /\ \E column \in TotalsColumns :
           positions = [t \in Teams |-> IF t = "away" THEN FreshColumn ELSE column]
    /\ sheetStats = ZeroSheetStats
    /\ rosterMap = buildRosterMap(names, positions)
    /\ playerStats = EmptyObject
    /\ AtTeamEntry("away")
    /\ outcome = ZeroStats
    /\ NoAux
    /\ finalState = [activePitcher |-> null, inheritedRunners |-> 0]
    /\ runs = 0
    /\ outputs = <<>>
    /\ \E g \in Grids(MaxTotalsFilled, TotalsNotations) :
           grid = [t \in Teams |-> IF t = "away" THEN g ELSE EmptyGrid]

TotalsSpec == TotalsInit /\ [][Next]_vars

(***************************************************************************)
(* calculateIP on its own: the argument is any number of outs from         *)
(* -MaxOuts to MaxOuts, the sheet lies idle.                               *)
(***************************************************************************)
\* no value returned yet
NoValue == -1

\* the sheet and the processor at rest: full rosters, nothing scored
IdleSheet ==
    /\ names = [t \in Teams |-> FullNames(t)]
    /\ positions = [t \in Teams |-> SetupColumn]
    /\ grid = [t \in Teams |-> EmptyGrid]
    /\ sheetStats = ZeroSheetStats
    /\ rosterMap = EmptyObject
    /\ playerStats = EmptyObject
    /\ battingTeam = "away"
    /\ pitcherTimeline = EmptyObject
    /\ pitcherIndex = 0
    /\ activePitcher = null
    /\ previousPitcher = null
    /\ inheritedRunners = 0
    /\ col = 0
    /\ row = 0
    /\ pc = "idle"
    /\ handoff = NoHandoff
    /\ outcome = ZeroStats
    /\ finalState = [activePitcher |-> null, inheritedRunners |-> 0]
    /\ runs = 0
    /\ outputs = <<>>

IPInit ==
    /\ IdleSheet
    /\ ipOuts \in (-MaxOuts)..MaxOuts
    /\ ipValue = NoValue
    /\ pitcherCell = NoPitcherCells
    /\ edit = NoEdit
    /\ NoCalls

\* the call calculateIP(outs)
CalculateIP ==
    /\ ipValue = NoValue
    /\ ipValue' = calculateIP(ipOuts)
    /\ UNCHANGED <<names, positions, grid, sheetStats, rosterMap, playerStats,
                   battingTeam, pitcherTimeline, pitcherIndex, activePitcher,
                   previousPitcher, inheritedRunners, col, row, pc, outcome,
                   finalState, runs, outputs, handoff, ipOuts, pitcherCell,
                   edit>>
    /\ UNCHANGED callVars

IPNext == CalculateIP

IPSpec == IPInit /\ [][IPNext]_vars

(***************************************************************************)
(* processGameStatsBulkBackground: the whole run, from the normalisation   *)
(* of the position column to the batch write, the two replays cell by      *)
(* cell in between.  The sheet is not edited between the runs.             *)
(***************************************************************************)
\* a bare "P" in a position cell becomes "SP"
normalizeStartingPitchers(pos) ==
    [t \in Teams |-> [i \in Rows |->
        IF pos[t][i] = <<"P">> THEN <<"S", "P">> ELSE pos[t][i]]]

\* zeros over the pitching and fielding columns of both roster blocks
clearPitcherStatsInSheet(sheet) ==
    [t \in Teams |-> [i \in Rows |->
        [sheet[t][i] EXCEPT !.pitching = <<0, 0, 0, 0, 0, 0, 0>>,
                            !.fielding = <<0, 0, 0>>]]]

\* zeros over the hitting columns and the SB column of both teams
clearHittingStatsInSheet(sheet) ==
    [t \in Teams |-> [i \in Rows |->
        [sheet[t][i] EXCEPT !.hitting = <<0, 0, 0, 0, 0, 0, 0, 0, 0>>,
                            !.fielding = [@ EXCEPT ![3] = 0]]]]

\* an accumulator map that keeps the totals of the run before
PlayerStatsKept(old) == old

\* var playerStats = {}
NewPlayerStats(old) == EmptyObject

PitchingRecord(ps, n) == IF Has(ps, n, "pitching") THEN ps[n]["pitching"] ELSE ZeroPitching

FieldingRecord(ps, n) == IF Has(ps, n, "fielding") THEN ps[n]["fielding"] ELSE ZeroFielding

HittingRecord(ps, n) == IF Has(ps, n, "hitting") THEN ps[n]["hitting"] ELSE ZeroHitting

\* one row of createEmptyBatch
createEmptyBatch(numCols) == [c \in 1..numCols |-> 0]

\* the six batches of writeStatsToSheet, row i of team t
writeStatsToSheet(ps, rmap) ==
    [t \in Teams |-> [i \in Rows |->
        LET here == {n \in DOMAIN ps :
                         n \in DOMAIN rmap /\ rmap[n].team = t
                         /\ rmap[n].batterIndex = i}
        IN  IF here = {}
            THEN [pitching |-> createEmptyBatch(7), fielding |-> createEmptyBatch(3),
                  hitting |-> createEmptyBatch(9)]
            ELSE LET n == CHOOSE m \in here : TRUE
                     p == PitchingRecord(ps, n)
                     f == FieldingRecord(ps, n)
                     h == HittingRecord(ps, n)
                 IN  [pitching |-> IF Has(ps, n, "pitching")
                                   THEN <<calculateIP(p.outs), p.BF, p.H, p.HR, p.R,
                                          p.BB, p.K>>
                                   ELSE createEmptyBatch(7),
                      fielding |-> IF Has(ps, n, "fielding")
                                   THEN <<f.NP, f.E, f.SB>>
                                   ELSE createEmptyBatch(3),
                      hitting |-> IF Has(ps, n, "hitting")
                                  THEN <<h.AB, h.H, h.HR, h.RBI, h.BB, h.K, h.ROB,
                                         h.DP, h.TB>>
                                  ELSE createEmptyBatch(9)]]]

\* the cell texts of the grids of a bulk run: "K SB", "PC1" and "OUT E1"
BulkNotations == {N_K_SB, N_PC1, N_OUT_E1}

\* stat blocks that still show the numbers of an earlier game
StaleSheetStats ==
    [t \in Teams |-> [i \in Rows |->
        [pitching |-> <<100, 4, 1, 0, 2, 1, 1>>, fielding |-> <<1, 0, 2>>,
         hitting |-> <<3, 1, 0, 2, 0, 1, 0, 0, 1>>]]]

\* the sheet as it lies before a run: rosters, position columns with the
\* starter marked "P" or with a relief history, two grids, old stat blocks
BulkInit ==
    /\ names \in {[t \in Teams |-> FullNames(t)],
                  [t \in Teams |-> BlankRowNames(t)]}
    /\ \E column \in {SetupColumn, FullTimelineColumn} :
           positions = [t \in Teams |-> column]
    /\ \E a \in Grids(MaxBulkFilled, BulkNotations) :
       \E h \in Grids(MaxBulkFilled, BulkNotations) :
           grid = [t \in Teams |-> IF t = "away" THEN a ELSE h]
    /\ sheetStats = StaleSheetStats
    /\ rosterMap = EmptyObject
    /\ playerStats = EmptyObject
    /\ battingTeam = "away"
    /\ pitcherTimeline = EmptyObject
    /\ pitcherIndex = 0
    /\ activePitcher = null
    /\ previousPitcher = null
    /\ inheritedRunners = 0
    /\ col = 0
    /\ row = 0
    /\ pc = "idle"
    /\ handoff = NoHandoff
    /\ outcome = ZeroStats
    /\ NoAux
    /\ finalState = [activePitcher |-> null, inheritedRunners |-> 0]
    /\ runs = 0
    /\ outputs = <<>>

\* normalise, clear, build the roster map, empty playerStats, enter the
\* replay of the away grid
StartRun ==
    /\ pc = "idle"
    /\ runs < MaxRuns
    /\ LET pos == normalizeStartingPitchers(positions)
       IN  /\ positions' = pos
           /\ sheetStats' = clearHittingStatsInSheet(clearPitcherStatsInSheet(sheetStats))
           /\ rosterMap' = buildRosterMap(names, pos)
           /\ playerStats' = NewPlayerStats(playerStats)
           /\ EnterTeam("away", names, pos)
    /\ UNCHANGED <<names, finalState, runs, outputs>>
    /\ UNCHANGED outcome
    /\ UNCHANGED auxVars

\* a run of the bulk processor on the sheet as it lies
BulkStart ==
    /\ StartRun
    /\ UNCHANGED grid

\* the away replay has returned: enter the replay of the home grid
BulkNextTeam ==
    /\ pc = "returned"
    /\ battingTeam = "away"
    /\ EnterTeam("home", names, positions)
    /\ UNCHANGED <<sheetVars, bulkVars, playerStats, finalState>>
    /\ UNCHANGED outcome
    /\ UNCHANGED auxVars

\* the home replay has returned: write the stat blocks
BulkWrite ==
    /\ pc = "returned"
    /\ battingTeam = "home"
    /\ sheetStats' = writeStatsToSheet(playerStats, rosterMap)
    /\ outputs' = Append(outputs, [playerStats |-> playerStats,
                                   sheetStats |-> sheetStats'])
    /\ runs' = runs + 1
    /\ pc' = "idle"
    /\ UNCHANGED <<names, positions, grid, rosterMap, playerStats, battingTeam,
                   pitcherTimeline, pitcherIndex, activePitcher, previousPitcher,
                   inheritedRunners, col, row, finalState, handoff>>
    /\ UNCHANGED outcome
    /\ UNCHANGED auxVars

BulkNext ==
    \/ BulkStart
    \/ SkipEmptyCell
    \/ StandalonePitcherChange
    \/ SkipNoBatter
    \/ AtBat
    \/ EndColumn
    \/ Return
    \/ BulkNextTeam
    \/ BulkWrite

BulkSpec == BulkInit /\ [][BulkNext]_vars

(***************************************************************************)
(* The grid as the claims see it.                                          *)
(***************************************************************************)
CellText(r, c) == grid[battingTeam][r][c]

CellStats(r, c) == NotationStats(CellText(r, c))

\* a filled cell with a pitching-change marker, alone or after an at-bat
IsMarker(r, c) == CellText(r, c) # <<>> /\ CellStats(r, c).isPitcherChange

IsStandalone(r, c) == IsMarker(r, c) /\ CellStats(r, c).BF = 0

\* the roster map has an entry of the batting team for grid row r
RowHasBatter(r) ==
    \E n \in DOMAIN rosterMap :
        rosterMap[n].team = battingTeam /\ rosterMap[n].batterIndex = r

\* cell (r1, c1) comes before place (r, c) in column-major order
Precedes(r1, c1, r, c) == c1 < c \/ (c1 = c /\ r1 < r)

MarkersBefore(r, c) ==
    Cardinality({rc \in Rows \X Cols :
                     Precedes(rc[1], rc[2], r, c) /\ IsMarker(rc[1], rc[2])})

\* the markers that are standalone or stand in a row that has a batter
ConsumedMarkersBefore(r, c) ==
    Cardinality({rc \in Rows \X Cols :
                     /\ Precedes(rc[1], rc[2], r, c)
                     /\ IsMarker(rc[1], rc[2])
                     /\ (IsStandalone(rc[1], rc[2]) \/ RowHasBatter(rc[1]))})

\* the loops are at a filled cell
FilledCell == InCell /\ CellText(row, col) # <<>>

\* the loops are at an at-bat cell whose row has a batter
AtBatCell == FilledCell /\ ~IsStandalone(row, col) /\ RowHasBatter(row)


PitchingOf(ps, n) == IF Has(ps, n, "pitching") THEN ps[n]["pitching"] ELSE ZeroPitching

HittingOf(ps, n) == IF Has(ps, n, "hitting") THEN ps[n]["hitting"] ELSE ZeroHitting

FieldingOf(ps, n) == IF Has(ps, n, "fielding") THEN ps[n]["fielding"] ELSE ZeroFielding

RunsOf(ps, n) == PitchingOf(ps, n).R

\* every name that has or gets an accumulator in this step
Touched == DOMAIN playerStats \cup DOMAIN playerStats'

\* this step adds the pitching counters of the cell to the record of p
CountersCreditedTo(p) ==
    /\ Has(playerStats', p, "pitching")
    /\ LET a == PitchingOf(playerStats, p)
           b == playerStats'[p]["pitching"]
           s == CellStats(row, col)
       IN  /\ b.BF = a.BF + s.BF
           /\ b.outs = a.outs + s.outs
           /\ b.H = a.H + s.H
           /\ b.HR = a.HR + s.HR
           /\ b.BB = a.BB + s.BB
           /\ b.K = a.K + s.K

(***************************************************************************)
(* C1 (as stated): the active pitcher at every cell, and the pitcher       *)
(* who gets the pitching counters of an at-bat cell, is timeline[k] with   *)
(* k the number of pitching-change cells, standalone or combined, before   *)
(* the cell in column-major order.                                         *)
(***************************************************************************)
C1_EveryMarkerCounts ==
    /\ [](pc = "cells" =>
            activePitcher = TimelineAt(pitcherTimeline, MarkersBefore(row, col)))
    /\ [][AtBatCell =>
            LET p == TimelineAt(pitcherTimeline, MarkersBefore(row, col))
            IN  p # null => CountersCreditedTo(p)]_vars

(***************************************************************************)
(* C1 (amended): the replay starts with timeline[0]; the active pitcher    *)
(* at every cell, and the pitcher credited with the pitching counters of   *)
(* an at-bat cell, is timeline[k] with k the number of pitching-change     *)
(* cells before the cell in column-major order that are standalone or      *)
(* stand in a row with a roster entry; a combined cell is credited to the  *)
(* pitcher active before its own change.                                   *)
(***************************************************************************)
C1_CreditInScoringOrder ==
    /\ [](pc = "cells" =>
            activePitcher =
                TimelineAt(pitcherTimeline, ConsumedMarkersBefore(row, col)))
    /\ [][AtBatCell =>
            LET p == TimelineAt(pitcherTimeline, ConsumedMarkersBefore(row, col))
            IN  p # null => CountersCreditedTo(p)]_vars

\* in the second inning, after one marker was consumed and one in a row
\* without batter was passed over, the relief pitcher has faced a batter
C1_Witness ==
    /\ pc = "cells"
    /\ col >= 1
    /\ ConsumedMarkersBefore(row, col) = 1
    /\ MarkersBefore(row, col) = 2
    /\ activePitcher # null
    /\ PitchingOf(playerStats, activePitcher).BF >= 1

(***************************************************************************)
(* Run attribution of one step, as C2 states it: credited = min(R,         *)
(* inheritedRunners) runs to previousPitcher when it has a pitching        *)
(* record, R - credited to the active pitcher, nothing to anybody else,    *)
(* and inheritedRunners decreased by credited (a combined cell then sets   *)
(* it to the digit of its marker).                                         *)
(***************************************************************************)
RunsSplitByInheritance ==
    LET s == CellStats(row, col)
        credited == Min(s.R, inheritedRunners)
        toPrevious(n) == IF n = previousPitcher /\ n # null
                            /\ (Has(playerStats, n, "pitching") \/ n = activePitcher)
                         THEN credited ELSE 0
        toActive(n) == IF n = activePitcher /\ n # null THEN s.R - credited ELSE 0
    IN  /\ \A n \in Touched \cup ({previousPitcher, activePitcher} \ {null}) :
               RunsOf(playerStats', n)
                   = RunsOf(playerStats, n) + toPrevious(n) + toActive(n)
        /\ ~s.isPitcherChange => inheritedRunners' = inheritedRunners - credited

\* no run total changes in this step, and the runners carried stay
NoRunCharged ==
    /\ \A n \in Touched : RunsOf(playerStats', n) = RunsOf(playerStats, n)
    /\ ~CellStats(row, col).isPitcherChange => inheritedRunners' = inheritedRunners

(***************************************************************************)
(* C2 (as stated): every at-bat cell with runsAllowed R > 0 splits its     *)
(* runs: min(R, inheritedRunners) to previousPitcher, the rest to the      *)
(* active pitcher, inheritedRunners decreased by the credited runs.        *)
(***************************************************************************)
C2_EveryScoringCellSplits ==
    [][AtBatCell /\ CellStats(row, col).R > 0 => RunsSplitByInheritance]_vars

(***************************************************************************)
(* C2 (amended): every at-bat cell with R > 0 that is processed while the  *)
(* timeline has an active pitcher splits its runs as stated; a cell        *)
(* processed while no pitcher is active charges no run to anybody and      *)
(* leaves inheritedRunners as it was.                                      *)
(***************************************************************************)
C2_ScoringCellSplitsUnderActivePitcher ==
    [][AtBatCell /\ CellStats(row, col).R > 0 =>
          IF activePitcher # null THEN RunsSplitByInheritance ELSE NoRunCharged]_vars

\* after a change that carried runners, runs were scored and both the
\* pitcher who left and the one who came have been charged
C2_Witness ==
    /\ handoff.open
    /\ handoff.carried >= 1
    /\ handoff.scored > handoff.carried
    /\ handoff.from # null /\ handoff.to # null
    /\ RunsOf(playerStats, handoff.from) = handoff.fromRuns + handoff.carried
    /\ RunsOf(playerStats, handoff.to) = handoff.toRuns + handoff.scored - handoff.carried

(***************************************************************************)
(* C3: inherited-runner cap.  After pitcher A, who has faced a batter,     *)
(* hands over to B with k runners carried, the at-bats B faces in that     *)
(* inning charge A exactly min(k, runs they score) and B the rest; A is    *)
(* charged at most k runs from the change until the next one.              *)
(***************************************************************************)
C3_InheritedRunnerCap ==
    (handoff.made /\ handoff.fromHasRecord /\ handoff.to # null
        /\ handoff.from # handoff.to) =>
        LET chargedA == RunsOf(playerStats, handoff.from) - handoff.fromRuns
            chargedB == RunsOf(playerStats, handoff.to) - handoff.toRuns
        IN  /\ chargedA = Min(handoff.carried, handoff.scored)
            /\ chargedA <= handoff.carried
            /\ handoff.open => chargedB = handoff.scored - chargedA

\* two scoring at-bats after a change that carried two runners: the pitcher
\* who left is charged two runs, the relief pitcher the third
C3_Witness ==
    /\ handoff.open
    /\ handoff.fromHasRecord
    /\ handoff.carried = 2
    /\ handoff.scored = 3
    /\ row = NumPlayers
    /\ handoff.to # null
    /\ RunsOf(playerStats, handoff.from) = handoff.fromRuns + 2
    /\ RunsOf(playerStats, handoff.to) = handoff.toRuns + 1

(***************************************************************************)
(* C4: inning-boundary reset.  inheritedRunners is 0 at the first cell of  *)
(* every column and in the returned final state; an at-bat of an inning    *)
(* in which no pitching change has been made yet charges its runs to       *)
(* nobody but the active pitcher, so a pitcher removed in an earlier       *)
(* inning is never charged.                                                *)
(***************************************************************************)
C4_InningBoundaryReset ==
    /\ [](pc = "cells" /\ row = 0 => inheritedRunners = 0)
    /\ [](pc = "returned" => finalState.inheritedRunners = 0)
    /\ [][AtBatCell /\ ~handoff.open =>
            \A n \in Touched \ {activePitcher} :
                RunsOf(playerStats', n) = RunsOf(playerStats, n)]_vars

\* a change left runners on at the end of its inning; in a later inning the
\* relief pitcher is charged a run and the pitcher who left is not
C4_Witness ==
    /\ pc = "cells"
    /\ col >= 1
    /\ handoff.made /\ ~handoff.open
    /\ handoff.fromHasRecord
    /\ handoff.carried >= 1
    /\ handoff.scored = 0
    /\ handoff.to # null /\ activePitcher = handoff.to
    /\ inheritedRunners = 0
    /\ RunsOf(playerStats, handoff.to) > handoff.toRuns
    /\ RunsOf(playerStats, handoff.from) = handoff.fromRuns

(***************************************************************************)
(* What a step does to a combined cell.                                    *)
(***************************************************************************)
\* the loops are at a cell that holds an at-bat and a pitching-change marker
CombinedCell == FilledCell /\ IsMarker(row, col) /\ ~IsStandalone(row, col)

\* the roster entry of the batting team for grid row r
RowBatter(r) ==
    CHOOSE n \in DOMAIN rosterMap :
        rosterMap[n].team = battingTeam /\ rosterMap[n].batterIndex = r

\* this step adds the hitting counters of the cell to the record of b
HittingCreditedTo(b) ==
    /\ Has(playerStats', b, "hitting")
    /\ LET a == HittingOf(playerStats, b)
           h == playerStats'[b]["hitting"]
           s == CellStats(row, col)
       IN  /\ h.AB = a.AB + s.AB
           /\ h.H = a.H + s.H
           /\ h.HR = a.HR + s.HR
           /\ h.RBI = a.RBI + s.R
           /\ h.BB = a.BB + s.BB
           /\ h.K = a.K + s.K
           /\ h.DP = a.DP + (IF s.DP THEN 1 ELSE 0)
           /\ h.TB = a.TB + s.TB

\* this step adds the stolen base of the cell to the record of b
StolenBaseCreditedTo(b) ==
    /\ Has(playerStats', b, "fielding")
    /\ playerStats'[b]["fielding"].SB
           = FieldingOf(playerStats, b).SB + (IF CellStats(row, col).SB THEN 1 ELSE 0)

\* this step creates and changes no pitching record
NoPitchingTouched ==
    \A n \in Touched :
        /\ Has(playerStats', n, "pitching") <=> Has(playerStats, n, "pitching")
        /\ PitchingOf(playerStats', n) = PitchingOf(playerStats, n)

\* the pitcher-advance transition, from the state before the step
PitcherAdvances ==
    /\ previousPitcher' = activePitcher
    /\ pitcherIndex' = pitcherIndex + 1
    /\ activePitcher' = TimelineAt(pitcherTimeline, pitcherIndex + 1)
    /\ inheritedRunners' = CellStats(row, col).inheritedRunners

\* the stats of the cell go to the batter and to the pitcher active before
\* the step, runs split with the runners held before the step; the pitcher
\* who comes in gets nothing; then the pitcher advances
DepartingPitcherCredited ==
    LET relief == TimelineAt(pitcherTimeline, pitcherIndex + 1)
    IN  /\ RowHasBatter(row)
        /\ HittingCreditedTo(RowBatter(row))
        /\ activePitcher # null =>
               CountersCreditedTo(activePitcher) /\ RunsSplitByInheritance
        /\ (relief # null /\ relief # activePitcher /\ relief # previousPitcher) =>
               /\ Has(playerStats', relief, "pitching")
                      <=> Has(playerStats, relief, "pitching")
               /\ PitchingOf(playerStats', relief) = PitchingOf(playerStats, relief)
        /\ PitcherAdvances

(***************************************************************************)
(* C5 (as stated): every combined cell credits its hitting increments to   *)
(* the batter and its pitching increments, runs split with the             *)
(* inheritedRunners held before the cell, to the departing pitcher, and    *)
(* only then makes the pitcher-advance transition; nothing goes to the     *)
(* relief pitcher and nothing is dropped.                                  *)
(***************************************************************************)
C5_EveryCombinedCellCredits ==
    [][CombinedCell => DepartingPitcherCredited]_vars

(***************************************************************************)
(* C5 (amended): a combined cell in a row that has a roster entry credits  *)
(* the batter and the departing pitcher (when there is one) before the     *)
(* pitcher-advance transition, nothing going to the relief pitcher; with   *)
(* no active pitcher the pitching increments are dropped; a combined cell  *)
(* in a row without roster entry is dropped whole, its marker included.    *)
(***************************************************************************)
C5_CombinedCellCreditsDeparting ==
    /\ [][CombinedCell /\ RowHasBatter(row) => DepartingPitcherCredited]_vars
    /\ [][CombinedCell /\ RowHasBatter(row) /\ activePitcher = null =>
            NoPitchingTouched]_vars
    /\ [][CombinedCell /\ ~RowHasBatter(row) =>
            UNCHANGED <<playerStats, previousPitcher, pitcherIndex, activePitcher,
                        inheritedRunners>>]_vars

\* a combined cell scored while a runner was carried: the run went to the
\* pitcher before, the hit to the departing one, the relief pitcher has no
\* record yet and carries the two runners of the marker
C5_Witness ==
    /\ handoff.open
    /\ handoff.carried = 2
    /\ handoff.scored = 0
    /\ inheritedRunners = 2
    /\ pitcherIndex = 2
    /\ handoff.fromHasRecord
    /\ handoff.from = TimelineAt(pitcherTimeline, 1)
    /\ previousPitcher = handoff.from
    /\ PitchingOf(playerStats, handoff.from).BF = 1
    /\ PitchingOf(playerStats, handoff.from).H = 1
    /\ RunsOf(playerStats, handoff.from) = 0
    /\ TimelineAt(pitcherTimeline, 0) # null
    /\ RunsOf(playerStats, TimelineAt(pitcherTimeline, 0)) = 2
    /\ activePitcher = handoff.to /\ activePitcher # null
    /\ ~Has(playerStats, activePitcher, "pitching")

(***************************************************************************)
(* C6: a standalone pitching-change cell only makes the transition         *)
(* previousPitcher := activePitcher, pitcherIndex := pitcherIndex + 1,     *)
(* activePitcher := timeline[pitcherIndex], inheritedRunners := the digit  *)
(* of the marker; playerStats is left as it was: no accumulator is         *)
(* created, no total changes.                                              *)
(***************************************************************************)
C6_StandaloneChangeOnlyAdvances ==
    [][FilledCell /\ IsStandalone(row, col) =>
          /\ PitcherAdvances
          /\ playerStats' = playerStats
          /\ row' = row + 1 /\ col' = col]_vars

\* right after a standalone marker that follows an at-bat: the starter has
\* his record, the pitcher who comes in has none, one runner is carried
C6_Witness ==
    /\ handoff.open
    /\ handoff.carried = 1
    /\ handoff.scored = 0
    /\ inheritedRunners = 1
    /\ pitcherIndex = 1
    /\ previousPitcher = handoff.from
    /\ handoff.fromHasRecord
    /\ PitchingOf(playerStats, handoff.from).BF >= 1
    /\ activePitcher = handoff.to /\ activePitcher # null
    /\ activePitcher \notin DOMAIN playerStats

(***************************************************************************)
(* C7 (as stated): pitcherIndex grows by exactly 1 at every filled cell    *)
(* whose outcome has isPitcherChange, standalone or combined, and is       *)
(* changed by no other cell; at the end it is the number of                *)
(* pitching-change cells of the grid.                                      *)
(***************************************************************************)
C7_IndexCountsEveryMarker ==
    /\ [][pc = "cells" =>
            pitcherIndex' = pitcherIndex
                + (IF FilledCell /\ IsMarker(row, col) THEN 1 ELSE 0)]_vars
    /\ [](pc = "returned" => pitcherIndex = MarkersBefore(0, NumInnings))

(***************************************************************************)
(* C7 (amended): pitcherIndex never decreases and never skips; it grows    *)
(* by exactly 1 at every filled pitching-change cell that is standalone    *)
(* or stands in a row with a roster entry, and is changed by no other      *)
(* cell; at the end it is the number of those cells.                       *)
(***************************************************************************)
C7_IndexCountsConsumedMarkers ==
    /\ [][pc = "cells" =>
            pitcherIndex' = pitcherIndex
                + (IF FilledCell /\ IsMarker(row, col)
                      /\ (IsStandalone(row, col) \/ RowHasBatter(row))
                   THEN 1 ELSE 0)]_vars
    /\ [](pc = "returned" => pitcherIndex = ConsumedMarkersBefore(0, NumInnings))

\* the replay has returned after a standalone and a combined marker were
\* consumed and a combined one in a row without roster entry was not
C7_Witness ==
    /\ pc = "returned"
    /\ pitcherIndex = 2
    /\ MarkersBefore(0, NumInnings) = 3
    /\ \E rc \in Rows \X Cols : IsStandalone(rc[1], rc[2])
    /\ \E rc \in Rows \X Cols :
           IsMarker(rc[1], rc[2]) /\ ~IsStandalone(rc[1], rc[2]) /\ RowHasBatter(rc[1])

(***************************************************************************)
(* C8: a filled cell that is no standalone marker, in a row without        *)
(* roster entry, is skipped whole: playerStats, the active and the         *)
(* previous pitcher, the pitcher index and the inherited runners stay as   *)
(* they were, and the replay goes on with the next cell.                   *)
(***************************************************************************)
C8_MissingBatterSkipsCell ==
    [][FilledCell /\ ~IsStandalone(row, col) /\ ~RowHasBatter(row) =>
          /\ UNCHANGED <<playerStats, activePitcher, previousPitcher, pitcherIndex,
                         inheritedRunners>>
          /\ pc' = "cells" /\ row' = row + 1 /\ col' = col]_vars

\* right after a combined cell of the row without roster entry, the batter
\* before having been recorded against the starter, who is still active
C8_Witness ==
    /\ pc = "cells"
    /\ row = 2
    /\ ~RowHasBatter(1)
    /\ IsMarker(1, col) /\ ~IsStandalone(1, col)
    /\ CellText(0, col) # <<>> /\ ~IsMarker(0, col)
    /\ pitcherIndex = ConsumedMarkersBefore(0, col)
    /\ activePitcher # null
    /\ PitchingOf(playerStats, activePitcher).BF >= 1

(***************************************************************************)
(* C9: with no timeline entry at the current index the replay goes on:     *)
(* an at-bat creates and changes no pitching record, the batter still      *)
(* gets the hitting increments and the stolen base; the active pitcher is  *)
(* always the timeline entry at the index, so the pitching counters are    *)
(* credited again once a pitching change reaches a filled slot.            *)
(***************************************************************************)
C9_MissingSlotTolerated ==
    /\ [](pc = "cells" => activePitcher = TimelineAt(pitcherTimeline, pitcherIndex))
    /\ [][AtBatCell /\ TimelineAt(pitcherTimeline, pitcherIndex) = null =>
            /\ NoPitchingTouched
            /\ HittingCreditedTo(RowBatter(row))
            /\ StolenBaseCreditedTo(RowBatter(row))
            /\ pc' = "cells" /\ row' = row + 1 /\ col' = col]_vars
    /\ [][AtBatCell /\ TimelineAt(pitcherTimeline, pitcherIndex) # null =>
            CountersCreditedTo(TimelineAt(pitcherTimeline, pitcherIndex))]_vars

\* the starter was never marked: a batter struck out and stole a base
\* against nobody, then a change reached relief pitcher 1, who faced a batter
C9_Witness ==
    /\ pc = "cells"
    /\ TimelineAt(pitcherTimeline, 0) = null
    /\ pitcherIndex = 1
    /\ activePitcher # null
    /\ PitchingOf(playerStats, activePitcher).BF >= 1
    /\ \A n \in DOMAIN playerStats : PitchingOf(playerStats, n).K = 0
    /\ \E b \in DOMAIN playerStats :
           HittingOf(playerStats, b).K >= 1 /\ FieldingOf(playerStats, b).SB >= 1

(***************************************************************************)
(* C10: idempotence and statelessness of the bulk processor.  Every run    *)
(* enters its first replay with an empty playerStats, and the runs made    *)
(* on an unchanged grid, roster and position column all end with the same  *)
(* accumulator totals and the same written stat blocks.                    *)
(***************************************************************************)
C10_BulkRunsIdempotent ==
    /\ (pc = "cells" /\ battingTeam = "away" /\ col = 0 /\ row = 0) =>
           playerStats = EmptyObject
    /\ \A i, j \in 1..Len(outputs) : outputs[i] = outputs[j]
    /\ (pc = "idle" /\ runs >= 1) =>
           /\ outputs[runs].playerStats = playerStats
           /\ outputs[runs].sheetStats = sheetStats

\* two runs are done; pitchers of both teams have faced batters and their
\* rows of the stat block show it
C10_Witness ==
    /\ pc = "idle"
    /\ Len(outputs) = 2
    /\ \A t \in Teams :
           \E n \in DOMAIN playerStats :
               /\ n \in DOMAIN rosterMap
               /\ rosterMap[n].team = t
               /\ PitchingOf(playerStats, n).BF >= 1
               /\ sheetStats[t][rosterMap[n].batterIndex].pitching[2]
                      = PitchingOf(playerStats, n).BF

(***************************************************************************)
(* The parser as the claims see it: the text of the first cell of the      *)
(* replayed grid and what parseNotation returned for it.                   *)
(***************************************************************************)
FirstText == grid["away"][0][0]

\* the replay has just passed the first cell
FirstCellPassed == pc = "cells" /\ col = 0 /\ row = 1

\* the replay has just passed the first cell and has called the parser on it
FirstCellParsed == FirstCellPassed /\ FirstText # <<>>

\* the text as the rules read it
Upper == trim(toUpperCase(FirstText))

\* nothing but blanks
IsBlank(text) == \A i \in 1..Len(text) : text[i] = " "

\* PC and one digit, the digit with or without brackets, and nothing else
IsSinglePCToken(u) ==
    /\ Len(u) \in 3..5
    /\ u[1] = "P" /\ u[2] = "C"
    /\ \E d \in AnyDigit :
           SubSeq(u, 3, Len(u)) \in {<<d>>, <<"[", d>>, <<d, "]">>, <<"[", d, "]">>}

\* the digit of a single pitching-change token
PCDigit(u) == DigitVal(IF u[3] = "[" THEN u[4] ELSE u[3])

In(u, a, b) == Contains(u, <<a, b>>)

In3(u, a, b, c) == Contains(u, <<a, b, c>>)

\* the outs of the outcome without the out of a caught stealing
OutsBeforeStealing == outcome.outs - (IF In(Upper, "C", "S") THEN 1 ELSE 0)

\* an earlier step has set an out: FC OUT, FCOUT, SF or SH
EarlyOutSet ==
    \/ Contains(Upper, <<"F", "C", " ", "O", "U", "T">>)
    \/ Contains(Upper, <<"F", "C", "O", "U", "T">>)
    \/ In(Upper, "S", "F")
    \/ In(Upper, "S", "H")

(***************************************************************************)
(* C11: empty and whitespace-only input parses to the all-zero outcome,    *)
(* and the replay credits nothing for a cell that holds such a text.       *)
(***************************************************************************)
C11_BlankParsesToZero ==
    /\ IsBlank(FirstText) => parseNotation(FirstText) = ZeroStats
    /\ (FirstCellPassed /\ IsBlank(FirstText)) =>
           outcome = ZeroStats /\ playerStats = EmptyObject

(***************************************************************************)
(* C12: a non-empty notation parses to battersFaced = 1, unless it is a    *)
(* single pitching-change token and nothing else: then battersFaced = 0    *)
(* and only isPitcherChange and inheritedRunners leave their zero value.   *)
(***************************************************************************)
C12_BattersFacedUnlessStandalone ==
    FirstCellParsed =>
        IF IsSinglePCToken(Upper)
        THEN outcome = [ZeroStats EXCEPT !.isPitcherChange = TRUE,
                                         !.inheritedRunners = PCDigit(Upper)]
        ELSE outcome.BF = 1

\* "PC[2]" alone in the cell has been parsed: no batter faced, two runners
C12_Witness ==
    /\ FirstCellParsed
    /\ Upper = <<"P", "C", "[", "2", "]">>
    /\ outcome.BF = 0
    /\ outcome.isPitcherChange
    /\ outcome.inheritedRunners = 2

(***************************************************************************)
(* C13: inheritedRunners is in 0..3, in the outcome of every parse and in  *)
(* the replay state after every cell.                                      *)
(***************************************************************************)
C13_InheritedRunnersAtMostThree ==
    /\ outcome.inheritedRunners \in 0..3
    /\ inheritedRunners \in 0..3

(***************************************************************************)
(* C14: the out count is resolved by an exclusive cascade.  With TP the    *)
(* cascade leaves 3 outs and the doublePlay flag, also when DP is there    *)
(* too; otherwise with DP 2 outs and the flag; otherwise with OUT or a     *)
(* strikeout 1 out; otherwise the outs set before.  The out count meant    *)
(* is the one the cascade leaves, before a caught stealing adds its out.   *)
(***************************************************************************)
C14_OutCascade ==
    FirstCellParsed =>
        IF In(Upper, "T", "P") THEN OutsBeforeStealing = 3 /\ outcome.DP
        ELSE IF In(Upper, "D", "P") THEN OutsBeforeStealing = 2 /\ outcome.DP
        ELSE /\ ~outcome.DP
             /\ OutsBeforeStealing =
                    (IF In3(Upper, "O", "U", "T")
                        \/ Contains(Upper, <<"K">>) \/ EarlyOutSet
                     THEN 1 ELSE 0)

\* "TP DP" has been parsed: three outs, not two, not five
C14_Witness ==
    /\ FirstCellParsed
    /\ In(Upper, "T", "P") /\ In(Upper, "D", "P")
    /\ outcome.outs = 3
    /\ outcome.DP

(***************************************************************************)
(* C15 (as stated): when the notation contains FC OUT, FCOUT, SF or SH,    *)
(* the out count after the cascade is the 1 set by that step, whichever    *)
(* of TP, DP, OUT or K the notation also contains.                         *)
(***************************************************************************)
C15_EarlyOutNeverOverridden ==
    (FirstCellParsed /\ EarlyOutSet) => OutsBeforeStealing = 1

(***************************************************************************)
(* C15 (amended): when the notation contains FC OUT, FCOUT, SF or SH and   *)
(* neither TP nor DP, the out count after the cascade is the 1 set by      *)
(* that step, with or without OUT or K; with TP the cascade sets 3 outs    *)
(* and with DP (and no TP) 2 outs over the 1 set before.                   *)
(***************************************************************************)
C15_EarlyOutKeptByGenericOut ==
    (FirstCellParsed /\ EarlyOutSet) =>
        OutsBeforeStealing =
            (IF In(Upper, "T", "P") THEN 3 ELSE IF In(Upper, "D", "P") THEN 2 ELSE 1)

\* "SF K" has been parsed: one out, the strikeout adds none
C15_Witness ==
    /\ FirstCellParsed
    /\ In(Upper, "S", "F") /\ Contains(Upper, <<"K">>)
    /\ ~In(Upper, "C", "S")
    /\ outcome.K = 1
    /\ outcome.outs = 1

(***************************************************************************)
(* The notation as a list of tokens.                                       *)
(***************************************************************************)
\* the words of the text, blanks apart
WordsOf(text) == split(trim(toUpperCase(text)), " ")

IsNotCS(word) == word # <<"C", "S">>

\* the same notation with its CS tokens taken out
WithoutCS(text) == JoinTokens(SelectSeq(WordsOf(text), IsNotCS))

\* one of the words of the first cell is CS
HasCSToken ==
    \E words \in {WordsOf(FirstText)} :
        \E i \in 1..Len(words) : words[i] = <<"C", "S">>

(***************************************************************************)
(* C16: caught stealing is additive.  A notation with a CS token has       *)
(* exactly one out more than the same notation without it, whatever outs   *)
(* TP, DP, OUT, K, FC OUT, SF or SH give; the outs of every outcome are    *)
(* in 0..4, and 4 only for a triple play with a caught stealing.           *)
(***************************************************************************)
C16_CaughtStealingAdds ==
    FirstCellParsed =>
        /\ outcome.outs \in 0..4
        /\ outcome.outs = 4 => In(Upper, "T", "P") /\ In(Upper, "C", "S")
        /\ HasCSToken =>
               /\ outcome.CS
               /\ outcome.outs = parseNotation(WithoutCS(FirstText)).outs + 1

\* "TP CS" has been parsed: four outs
C16_Witness ==
    /\ FirstCellParsed
    /\ HasCSToken
    /\ In(Upper, "T", "P")
    /\ outcome.CS
    /\ outcome.outs = 4

(***************************************************************************)
(* C17: runsAllowed is 4, 3, 2, 1 for the first of 4RBI, 3RBI, 2RBI, RBI   *)
(* the notation contains, looked for in that order (1RBI counts as 1),     *)
(* and 0 when it contains none: always in 0..4.                            *)
(***************************************************************************)
C17_RBIPriority ==
    FirstCellParsed =>
        /\ outcome.R \in 0..4
        /\ Contains(Upper, <<"4", "R", "B", "I">>) => outcome.R = 4
        /\ (/\ ~Contains(Upper, <<"4", "R", "B", "I">>)
            /\ Contains(Upper, <<"3", "R", "B", "I">>)) => outcome.R = 3
        /\ (/\ ~Contains(Upper, <<"4", "R", "B", "I">>)
            /\ ~Contains(Upper, <<"3", "R", "B", "I">>)
            /\ Contains(Upper, <<"2", "R", "B", "I">>)) => outcome.R = 2
        /\ (/\ ~Contains(Upper, <<"4", "R", "B", "I">>)
            /\ ~Contains(Upper, <<"3", "R", "B", "I">>)
            /\ ~Contains(Upper, <<"2", "R", "B", "I">>)
            /\ In3(Upper, "R", "B", "I")) => outcome.R = 1
        /\ ~In3(Upper, "R", "B", "I") => outcome.R = 0

\* "2RBI 4RBI" has been parsed: four runs, the 2RBI written first or not
C17_Witness ==
    /\ FirstCellParsed
    /\ Contains(Upper, <<"2", "R", "B", "I">>)
    /\ Contains(Upper, <<"4", "R", "B", "I">>)
    /\ outcome.R = 4

(***************************************************************************)
(* C18: a notation that is not empty and no standalone pitching-change     *)
(* marker has atBats = 1, unless it contains BB, SF or SH: then            *)
(* atBats = 0.  Hits, outs, strikeouts, fielder's choice, errors and       *)
(* unknown tokens all count as one at-bat.                                 *)
(***************************************************************************)
C18_AtBatUnlessWalkOrSacrifice ==
    (FirstCellParsed /\ ~IsSinglePCToken(Upper)) =>
        outcome.AB = (IF In(Upper, "B", "B") \/ In(Upper, "S", "F")
                         \/ In(Upper, "S", "H")
                      THEN 0 ELSE 1)

\* a walk with a stolen base has been parsed: a batter faced, no at-bat
C18_Witness ==
    /\ FirstCellParsed
    /\ In(Upper, "B", "B")
    /\ ~In(Upper, "S", "F") /\ ~In(Upper, "S", "H")
    /\ outcome.BB = 1
    /\ outcome.BF = 1
    /\ outcome.AB = 0

(***************************************************************************)
(* C19: a notation that matches no rule is no error.  The parser returns   *)
(* battersFaced = 1, atBats = 1, outsRecorded = 0 and every other field    *)
(* zero, false or null; the replay goes on and credits the cells that      *)
(* follow.                                                                 *)
(***************************************************************************)
\* the text, not blank, has none of the shorthands in it
MatchesNoRule(u) ==
    /\ u # <<>>
    /\ \A t \in {<<"1", "B">>, <<"2", "B">>, <<"3", "B">>, <<"H", "R">>, <<"B", "B">>,
                 <<"K">>, <<"F", "C">>, <<"S", "F">>, <<"S", "H">>, <<"T", "P">>,
                 <<"D", "P">>, <<"O", "U", "T">>, <<"S", "B">>, <<"C", "S">>,
                 <<"R", "B", "I">>, <<"N", "P">>, <<"P", "C">>, <<"E">>} :
           ~Contains(u, t)

C19_UnknownNotationIsAtBat ==
    /\ (FirstCellParsed /\ MatchesNoRule(Upper)) =>
           outcome = [ZeroStats EXCEPT !.BF = 1, !.AB = 1]
    /\ (pc = "returned" /\ MatchesNoRule(Upper)) =>
           /\ HittingOf(playerStats, names["away"][0]).AB = 1
           /\ HittingOf(playerStats, names["away"][2]).H = 1
           /\ activePitcher # null
           /\ PitchingOf(playerStats, activePitcher).BF = 2
           /\ PitchingOf(playerStats, activePitcher).outs = 0
           /\ PitchingOf(playerStats, activePitcher).H = 1

\* the replay has returned after an unknown token in its first cell
C19_Witness ==
    /\ pc = "returned"
    /\ MatchesNoRule(Upper)
    /\ outcome.H = 1
    /\ HittingOf(playerStats, names["away"][0]).AB = 1
    /\ HittingOf(playerStats, names["away"][0]).H = 0
    /\ HittingOf(playerStats, names["away"][2]).H = 1

(***************************************************************************)
(* C20: hits are found by independent substring checks in the order 1B,    *)
(* 2B, 3B, HR, a later match overwriting an earlier one.  totalBases is    *)
(* the base value of the last type that matches, hits = 1 exactly when     *)
(* one matches, homeRuns = 1 exactly when HR matches.                      *)
(***************************************************************************)
C20_LastHitTypeWins ==
    FirstCellParsed =>
        LET types == <<<<"1", "B">>, <<"2", "B">>, <<"3", "B">>, <<"H", "R">>>>
            matching == {i \in 1..4 : Contains(Upper, types[i])}
            last == CHOOSE i \in matching : \A j \in matching : j <= i
        IN  /\ outcome.TB = (IF matching = {} THEN 0 ELSE last)
            /\ outcome.H = (IF matching = {} THEN 0 ELSE 1)
            /\ outcome.HR = (IF 4 \in matching THEN 1 ELSE 0)

\* a text with 1B and 2B in it has been parsed: one hit, two bases
C20_Witness ==
    /\ FirstCellParsed
    /\ In(Upper, "1", "B") /\ In(Upper, "2", "B")
    /\ outcome.H = 1
    /\ outcome.TB = 2
    /\ outcome.HR = 0

(***************************************************************************)
(* The fielding tokens as the claims see them.                             *)
(***************************************************************************)
\* prefix, then a digit 1-9, a "[" allowed between the two
DigitForm(u, prefix) ==
    \E i \in 1..Len(u) :
        /\ i + Len(prefix) <= Len(u)
        /\ SubSeq(u, i, i + Len(prefix) - 1) = prefix
        /\ \/ u[i + Len(prefix)] \in Digit19
           \/ /\ u[i + Len(prefix)] = "["
              /\ i + Len(prefix) + 1 <= Len(u)
              /\ u[i + Len(prefix) + 1] \in Digit19

\* one of the words of the first cell is E
IsolatedE ==
    \E words \in {WordsOf(FirstText)} : \E i \in 1..Len(words) : words[i] = <<"E">>

(***************************************************************************)
(* C22: the legacy flags are fallbacks.  NP is set exactly when the text   *)
(* contains NP and no NP-with-digit token matched, E exactly when no       *)
(* E-with-digit token matched and E stands as a word of its own; NP and    *)
(* isNicePlay are never both true, nor E and isError.                      *)
(***************************************************************************)
C22_LegacyFlagsAreFallbacks ==
    /\ FirstCellParsed =>
           \E u \in {Upper} :
               ~IsSinglePCToken(u) =>
                   /\ outcome.isNicePlay = DigitForm(u, <<"N", "P">>)
                   /\ outcome.isError = DigitForm(u, <<"E">>)
                   /\ outcome.NP = (In(u, "N", "P") /\ ~DigitForm(u, <<"N", "P">>))
                   /\ outcome.E = (~DigitForm(u, <<"E">>) /\ IsolatedE)
    /\ ~(outcome.NP /\ outcome.isNicePlay)
    /\ ~(outcome.E /\ outcome.isError)

\* "NP E" has been parsed: both legacy flags, no fielder
C22_Witness ==
    /\ FirstCellParsed
    /\ IsolatedE
    /\ In(Upper, "N", "P")
    /\ outcome.NP /\ outcome.E
    /\ ~outcome.isNicePlay /\ ~outcome.isError
    /\ outcome.fielderPosition = 0

(***************************************************************************)
(* C23: parseNotation does not depend on the case of the letters or on     *)
(* blanks before and after the notation: the text of the first cell in     *)
(* lower case, in upper case, and with a blank added on both sides parses  *)
(* to the outcome of the text itself.                                      *)
(***************************************************************************)
LowerChar(c) ==
    IF \E i \in 1..26 : UpperCase[i] = c
    THEN LowerCase[CHOOSE i \in 1..26 : UpperCase[i] = c]
    ELSE c

toLowerCase(s) == [i \in 1..Len(s) |-> LowerChar(s[i])]

\* the text with a blank before and a blank after it
Padded(s) == <<" ">> \o s \o <<" ">>

C23_CaseAndBlanksIgnored ==
    FirstCellPassed =>
        LET result == IF FirstText = <<>> THEN parseNotation(FirstText) ELSE outcome
        IN  /\ parseNotation(toLowerCase(FirstText)) = result
            /\ parseNotation(toUpperCase(FirstText)) = result
            /\ parseNotation(Padded(FirstText)) = result

(***************************************************************************)
(* C28: calculateIP clamps negative outs to 0 and returns floor(outs/3)    *)
(* full innings plus .00, .33 or .67 for a remainder of 0, 1 or 2 outs;    *)
(* in hundredths 0 -> 0, 1 -> 33, 2 -> 67, 3 -> 100, 4 -> 133.             *)
(***************************************************************************)
C28_InningsPitched ==
    ipValue # NoValue =>
        /\ ipOuts < 0 => ipValue = 0
        /\ ipOuts >= 0 =>
               \E q \in 0..MaxOuts : \E r \in 0..2 :
                   /\ ipOuts = 3 * q + r
                   /\ ipValue = 100 * q + <<0, 33, 67>>[r + 1]
        /\ ipOuts = 0 => ipValue = 0
        /\ ipOuts = 1 => ipValue = 33
        /\ ipOuts = 2 => ipValue = 67
        /\ ipOuts = 3 => ipValue = 100
        /\ ipOuts = 4 => ipValue = 133

\* calculateIP(4) has returned 1.33
C28_Witness == ipOuts = 4 /\ ipValue = 133

(***************************************************************************)
(* The fielding credit as the claims see it.                               *)
(***************************************************************************)
\* the text of the cell the loops are at, as the parser reads it
CellUpper == trim(toUpperCase(CellText(row, col)))

\* the position number written after prefix in the text u
DigitAfter(u, prefix) ==
    CHOOSE d \in 1..9 :
        \/ Contains(u, prefix \o <<Digits[d + 1]>>)
        \/ Contains(u, prefix \o <<"[", Digits[d + 1]>>)

FieldingTeamPlayers == {m \in DOMAIN rosterMap : rosterMap[m].team = fieldingTeam}

\* the fielding-team players whose current position is number n
Holders(n) == {m \in FieldingTeamPlayers : rosterMap[m].position = positionMap[n]}

\* this step leaves the fielding counters of the players in group alone
FieldingUnchanged(group) ==
    \A g \in group : FieldingOf(playerStats', g) = FieldingOf(playerStats, g)

\* the first cell of the away grid held text and has been replayed
FirstCellWas(text) == FirstCellPassed /\ FirstText = text /\ battingTeam = "away"

C24_NicePlayAndErrorAttribution ==
    [][AtBatCell =>
         LET s == CellStats(row, col)
             b == RowBatter(row)
             at == IF s.fielderPosition \in 1..9 THEN Holders(s.fielderPosition)
                   ELSE {}
             np == IF s.isNicePlay /\ at # {} THEN 1 ELSE 0
             e == IF s.isError /\ at # {} THEN 1 ELSE 0
         IN  /\ s.isNicePlay = DigitForm(CellUpper, <<"N", "P">>)
             /\ s.isError = DigitForm(CellUpper, <<"E">>)
             /\ playerStats'[b]["hitting"].ROB = HittingOf(playerStats, b).ROB + np
             /\ (s.isNicePlay \/ s.isError) =>
                    \A f \in at :
                        /\ FieldingOf(playerStats', f).NP
                               = FieldingOf(playerStats, f).NP + np
                        /\ FieldingOf(playerStats', f).E
                               = FieldingOf(playerStats, f).E + e
             /\ FieldingUnchanged(FieldingTeamPlayers \ at)
             /\ HittingCreditedTo(b)
             /\ activePitcher # null => CountersCreditedTo(activePitcher)]_vars

\* "OUT NP5" has been replayed with nobody at third base: no nice play,
\* no ROB, and the batter has his at-bat
C24_Witness ==
    /\ FirstCellWas(N_OUT_NP5)
    /\ outcome.isNicePlay
    /\ Holders(5) = {}
    /\ \A n \in DOMAIN playerStats : FieldingOf(playerStats, n).NP = 0
    /\ HittingOf(playerStats, names["away"][0]).ROB = 0
    /\ HittingOf(playerStats, names["away"][0]).AB = 1

PositionNumbers ==
    [n \in 1..9 |->
        CASE n = 1 -> <<"P">>
          [] n = 2 -> <<"C">>
          [] n = 3 -> <<"1", "B">>
          [] n = 4 -> <<"2", "B">>
          [] n = 5 -> <<"3", "B">>
          [] n = 6 -> <<"S", "S">>
          [] n = 7 -> <<"L", "F">>
          [] n = 8 -> <<"C", "F">>
          [] n = 9 -> <<"R", "F">>]

\* this step adds the error and the nice play of the cell to the record of f
FieldingCreditedTo(f) ==
    LET s == CellStats(row, col)
    IN  /\ FieldingOf(playerStats', f).E
               = FieldingOf(playerStats, f).E + (IF s.isError THEN 1 ELSE 0)
        /\ FieldingOf(playerStats', f).NP
               = FieldingOf(playerStats, f).NP + (IF s.isNicePlay THEN 1 ELSE 0)

C25_PositionNumberNamesFielder ==
    [][(AtBatCell /\ CellStats(row, col).fielderPosition \in 1..9) =>
         LET n == CellStats(row, col).fielderPosition
         IN  /\ \A f \in FieldingTeamPlayers :
                    rosterMap[f].position = PositionNumbers[n] => FieldingCreditedTo(f)
             /\ (n = 1 /\ activePitcher # null) => FieldingCreditedTo(activePitcher)]_vars

(***************************************************************************)
(* C27: the pitcher timeline.  A fielding-team player with a history       *)
(* entry exactly SP is timeline[0], one with an entry RPn is timeline[n];  *)
(* no other entry, a bare P included, puts a player in the timeline, and   *)
(* the timeline is not modified while the grid is replayed.                *)
(***************************************************************************)
\* the history entry that names slot k: SP for 0, RP1 .. RP9 for 1 .. 9
SlotEntry(k) == IF k = 0 THEN <<"S", "P">> ELSE <<"R", "P", Digits[k + 1]>>

\* roster row i of the fielding team has a name and the entry of slot k
RowNamesSlot(i, k) ==
    /\ names[fieldingTeam][i] # ""
    /\ LET history == getPositionHistory(positions[fieldingTeam][i])
       IN  \E j \in 1..Len(history) : history[j] = SlotEntry(k)

\* inside and after a replay the timeline is what the histories name
TimelineNamesHistory ==
    pc \in {"cells", "returned"} =>
        /\ DOMAIN pitcherTimeline = {k \in 0..9 : \E i \in Rows : RowNamesSlot(i, k)}
        /\ \A k \in DOMAIN pitcherTimeline :
               \E i \in Rows :
                   RowNamesSlot(i, k) /\ pitcherTimeline[k] = names[fieldingTeam][i]

C27_TimelineFromHistory ==
    [][/\ TimelineNamesHistory
       /\ pc = "cells" => pitcherTimeline' = pitcherTimeline]_vars

\* the replay has returned for a roster whose starter reads "SP / C" and
\* whose relief pitcher reads "C / RP1": slots 0 and 1 are filled and the
\* relief pitcher has come in
C27_Witness ==
    /\ pc = "returned"
    /\ positions[fieldingTeam] = SwappedColumn
    /\ DOMAIN pitcherTimeline = {0, 1}
    /\ pitcherTimeline[0] = names[fieldingTeam][0]
    /\ pitcherTimeline[1] = names[fieldingTeam][1]
    /\ pitcherIndex = 1


(***************************************************************************)
(* The edit of a pitcher dropdown, cell D3 or D4: processEdit calls        *)
(* handlePositionSwap and then autoInsertPitcherChange.                    *)
(***************************************************************************)
MaxEdits == 2

NumBatters == 4

MaxEditFilled == 4

\* String(n) for a number that is not negative
RECURSIVE NumberText(_)
NumberText(n) ==
    IF n < 10 THEN <<Digits[n + 1]>>
    ELSE NumberText(n \div 10) \o <<Digits[(n % 10) + 1]>>

\* appendPosition without the comparison with the current position
appendPositionAlways(currentValue, newPosition) ==
    IF currentValue = <<>> \/ trim(currentValue) = <<>> THEN newPosition
    ELSE trim(currentValue) \o <<" ", "/", " ">> \o newPosition

appendPosition(currentValue, newPosition) ==
    IF currentValue = <<>> \/ trim(currentValue) = <<>> THEN newPosition
    ELSE LET current == trim(currentValue)
         IN  IF getCurrentPosition(current) = newPosition THEN current
             ELSE current \o <<" ", "/", " ">> \o newPosition

\* what findPlayerRowByName and findLastAtBatCell return for nothing found
NotFound == <<>>

\* the roster rows whose name cell holds playerName
NamedRows(nm, playerName) ==
    {<<t, i>> \in Teams \X Rows : nm[t][i] = playerName}

\* findPlayerRowByName: the away roster first, then the home roster, each from
\* the top; <<team, index>> of the first match
findPlayerRowByName(nm, playerName) ==
    IF playerName = "" \/ NamedRows(nm, playerName) = {} THEN NotFound
    ELSE CHOOSE at \in NamedRows(nm, playerName) :
            \A other \in NamedRows(nm, playerName) :
                \/ at[1] = "away" /\ other[1] = "home"
                \/ at[1] = other[1] /\ at[2] <= other[2]

\* the numbers n of the entries RPn in the position histories of the team
ReliefNumbers(pos, team) ==
    UNION {LET history == getPositionHistory(pos[team][i])
           IN  {parseInt(SubSeq(history[j], 3, Len(history[j]))) :
                    j \in {k \in 1..Len(history) : IsRP(history[k])}} :
           i \in {r \in Rows : pos[team][r] # <<>>}}

\* the highest RP number any position history of either team holds
countReliefPitchersBothTeams(pos, team) ==
    LET numbers == ReliefNumbers(pos, "away") \cup ReliefNumbers(pos, "home")
    IN  IF numbers = {} THEN 0
        ELSE CHOOSE n \in numbers : \A m \in numbers : m <= n

\* the highest RP number any position history of the team holds, 0 for none
countReliefPitchers(pos, team) ==
    IF ReliefNumbers(pos, team) = {} THEN 0
    ELSE CHOOSE n \in ReliefNumbers(pos, team) :
            \A m \in ReliefNumbers(pos, team) : m <= n

\* the position column after handlePositionSwap(sheet, oldPitcher, newPitcher)
handlePositionSwap(nm, pos, oldPitcher, newPitcher) ==
    IF oldPitcher = "" \/ newPitcher = "" \/ oldPitcher = newPitcher THEN pos
    ELSE LET newPitcherRow == findPlayerRowByName(nm, newPitcher)
             oldPitcherRow == findPlayerRowByName(nm, oldPitcher)
         IN  IF newPitcherRow = NotFound THEN pos
             ELSE IF oldPitcherRow = NotFound
             THEN [pos EXCEPT ![newPitcherRow[1]][newPitcherRow[2]] =
                       appendPosition(@, <<"S", "P">>)]
             ELSE LET newPitcherPositionCell ==
                          pos[newPitcherRow[1]][newPitcherRow[2]]
                      oldPitcherPositionCell ==
                          pos[oldPitcherRow[1]][oldPitcherRow[2]]
                      newPitcherCurrentPos ==
                          getCurrentPosition(newPitcherPositionCell)
                      newPitcherTeam == newPitcherRow[1]
                      reliefCount == countReliefPitchers(pos, newPitcherTeam)
                      newPitcherNotation ==
                          <<"R", "P">> \o NumberText(reliefCount + 1)
                      newPitcherUpdated ==
                          appendPosition(newPitcherPositionCell, newPitcherNotation)
                      oldPitcherUpdated ==
                          appendPosition(oldPitcherPositionCell, newPitcherCurrentPos)
                      written == [pos EXCEPT ![newPitcherRow[1]][newPitcherRow[2]] =
                                      newPitcherUpdated]
                  IN  [written EXCEPT ![oldPitcherRow[1]][oldPitcherRow[2]] =
                           oldPitcherUpdated]

\* the rows and the columns of an at-bat range of NumBatters batters
BatterRows == 0..(NumBatters - 1)

\* the cells of one team's grid that hold text
FilledCells(g) ==
    {<<r, c>> \in (DOMAIN g) \X Cols : g[r][c] # <<>>}

\* findLastAtBatCell: columns from the right, rows from the bottom, the first
\* cell that holds text
findLastAtBatCell(g) ==
    IF FilledCells(g) = {} THEN NotFound
    ELSE CHOOSE at \in FilledCells(g) :
            \A other \in FilledCells(g) :
                \/ other[2] < at[2]
                \/ other[2] = at[2] /\ other[1] <= at[1]

\* calculateInheritedRunners, the loop over the rows of the column read:
\* the counters after the rows from r down
RECURSIVE ScanColumn(_, _, _, _)
ScanColumn(g, c, r, counters) ==
    IF r \notin DOMAIN g THEN counters
    ELSE LET cellValue == g[r][c]
             s == parseNotation(cellValue)
             onBase == counters.runnersOnBase +
                 (IF s.H > 0 \/ s.BB > 0 \/ s.E \/ s.isError \/ s.FC THEN 1 ELSE 0)
             left == IF s.R > 0
                     THEN (IF onBase - s.R > 0 THEN onBase - s.R ELSE 0)
                     ELSE onBase
         IN  IF cellValue = <<>> \/ startsWith(toUpperCase(cellValue), <<"P", "C">>)
             THEN ScanColumn(g, c, r + 1, counters)
             ELSE ScanColumn(g, c, r + 1,
                             [runnersOnBase |-> left,
                              outs |-> counters.outs + s.outs])

\* the column calculateInheritedRunners reads: currentCol when it holds text,
\* else the one before it, -1 when there is none
ColumnToRead(g, currentCol) ==
    IF \E r \in DOMAIN g : g[r][currentCol] # <<>> THEN currentCol
    ELSE IF currentCol > 0 THEN currentCol - 1 ELSE -1

\* the count without the limit of three
calculateInheritedRunnersUncapped(g, currentCol) ==
    IF ColumnToRead(g, currentCol) = -1 THEN 0
    ELSE LET counters == ScanColumn(g, ColumnToRead(g, currentCol), 0,
                                    [runnersOnBase |-> 0, outs |-> 0])
         IN  IF counters.outs >= 3 THEN 0 ELSE counters.runnersOnBase

calculateInheritedRunners(g, currentCol) ==
    IF ColumnToRead(g, currentCol) = -1 THEN 0
    ELSE LET counters == ScanColumn(g, ColumnToRead(g, currentCol), 0,
                                    [runnersOnBase |-> 0, outs |-> 0])
         IN  IF counters.outs >= 3 THEN 0
             ELSE Min(3, counters.runnersOnBase)

\* the grids after autoInsertPitcherChange for the dropdown of team cell
autoInsertPitcherChange(grids, cell) ==
    LET batting == IF cell = "away" THEN "home" ELSE "away"
        result == findLastAtBatCell(grids[batting])
    IN  IF result = NotFound THEN grids
        ELSE LET n == calculateInheritedRunners(grids[batting], result[2])
             IN  [grids EXCEPT ![batting][result[1]][result[2]] =
                      @ \o <<" ", "P", "C">> \o NumberText(n)]

N_1B == <<"1", "B">>

N_K == <<"K">>

\* at-bat texts a scorer has entered before a pitching change
EditNotations == {N_1B, N_K}

\* grids of NumBatters rows whose first m cells, down the columns, hold texts
EditGridsOf(m, texts) ==
    {[r \in BatterRows |-> [c \in Cols |->
         IF c * NumBatters + r < m THEN f[c * NumBatters + r] ELSE <<>>]] :
     f \in [0..(m - 1) -> texts]}

\* two singles and a home run that drives both in
ScoringGrid ==
    [r \in BatterRows |-> [c \in Cols |->
        IF c # 0 THEN <<>>
        ELSE IF r < 2 THEN N_1B
        ELSE IF r = 2 THEN N_HR_2RBI ELSE <<>>]]

\* three strikeouts in the first inning, a single to open the second
SecondInningGrid ==
    [r \in BatterRows |-> [c \in Cols |->
        IF c = 0 /\ r < 3 THEN N_K
        ELSE IF c = 1 /\ r = 0 THEN N_1B ELSE <<>>]]

EditGrids ==
    UNION {EditGridsOf(m, EditNotations) :
               m \in 0..Min(MaxEditFilled, NumBatters * NumInnings)}
    \cup {ScoringGrid, SecondInningGrid}

\* no at-bat text in the range
EmptyEditGrid == [r \in BatterRows |-> [c \in Cols |-> <<>>]]

\* the sheet between two runs of the bulk processor: the position columns as
\* set up or as a run has left them, the starters in the dropdowns, the away
\* team's grid with at-bats entered
EditInit ==
    /\ names = [t \in Teams |-> FullNames(t)]
    /\ \E column \in {SetupColumn, FreshColumn} :
           positions = [t \in Teams |-> column]
    /\ \E g \in EditGrids : grid = [away |-> g, home |-> EmptyEditGrid]
    /\ sheetStats = ZeroSheetStats
    /\ rosterMap = EmptyObject
    /\ playerStats = EmptyObject
    /\ battingTeam = "away"
    /\ pitcherTimeline = EmptyObject
    /\ pitcherIndex = 0
    /\ activePitcher = null
    /\ previousPitcher = null
    /\ inheritedRunners = 0
    /\ col = 0
    /\ row = 0
    /\ pc = "idle"
    /\ handoff = NoHandoff
    /\ outcome = ZeroStats
    /\ finalState = [activePitcher |-> null, inheritedRunners |-> 0]
    /\ runs = 0
    /\ outputs = <<>>
    /\ ipOuts = 0
    /\ ipValue = 0
    /\ pitcherCell = [t \in Teams |-> names[t][0]]
    /\ edit = NoEdit
    /\ NoCalls

\* onEdit and processEdit for an edit of the dropdown of team cell to the
\* name newValue: the position swap, then the PC marker
PitcherCellEdited(cell, newValue) ==
    /\ LET oldValue == pitcherCell[cell]
           changed == oldValue # "" /\ newValue # "" /\ oldValue # newValue
       IN  /\ pitcherCell' = [pitcherCell EXCEPT ![cell] = newValue]
           /\ positions' = IF changed
                           THEN handlePositionSwap(names, positions, oldValue, newValue)
                           ELSE positions
           /\ grid' = IF changed THEN autoInsertPitcherChange(grid, cell) ELSE grid
           /\ edit' = [count |-> edit.count + 1, cell |-> cell,
                       oldValue |-> oldValue, newValue |-> newValue,
                       positions |-> positions, grid |-> grid]
    /\ UNCHANGED <<names, sheetStats, rosterMap, playerStats, battingTeam,
                   pitcherTimeline, pitcherIndex, activePitcher, previousPitcher,
                   inheritedRunners, col, row, pc, outcome, finalState, runs,
                   outputs, handoff, ipOuts, ipValue>>
    /\ UNCHANGED callVars

\* the edit made while no replay runs
PitcherEdit(cell, newValue) ==
    /\ pc = "idle"
    /\ edit.count < MaxEdits
    /\ PitcherCellEdited(cell, newValue)

\* the dropdown of a team offers the names of its roster
EditNext ==
    \E cell \in Teams : \E i \in Rows :
        /\ names[cell][i] # pitcherCell[cell]
        /\ PitcherEdit(cell, names[cell][i])

EditSpec == EditInit /\ [][EditNext]_vars


(***************************************************************************)
(* The claims about the edit of a pitcher dropdown.                        *)
(***************************************************************************)
\* the player the roster lists at P or SP when the game begins
Starter(team) == names[team][0]

\* the position history, in the column pos, of the player of the team
HistoryOf(pos, team, name) ==
    getPositionHistory(pos[team][CHOOSE i \in Rows : names[team][i] = name])

\* the history holds the entry
Recorded(history, entry) == \E j \in 1..Len(history) : history[j] = entry

\* C29: after the dropdown of a team has changed from an old pitcher to a new
\* pitcher of its roster, the old pitcher's history holds SP if they started
\* the game and an entry RPn if they came on in relief, the new pitcher's
\* current position is RP followed by one more than the highest relief number
\* the team had, and the timeline the next bulk run builds names the starter
\* at index 0 and the new pitcher at that new index
C29_SwapRecordsPitchers ==
    edit.count > 0 =>
        LET team == edit.cell
            next == countReliefPitchers(edit.positions, team) + 1
            oldHistory == HistoryOf(positions, team, edit.oldValue)
            newHistory == HistoryOf(positions, team, edit.newValue)
            timeline == buildPitcherTimeline(
                            names, normalizeStartingPitchers(positions), team)
        IN  /\ edit.oldValue = Starter(team) => Recorded(oldHistory, <<"S", "P">>)
            /\ edit.oldValue # Starter(team) =>
                   \E j \in 1..Len(oldHistory) : IsRP(oldHistory[j])
            /\ newHistory[Len(newHistory)] = <<"R", "P">> \o NumberText(next)
            /\ 0 \in DOMAIN timeline
            /\ timeline[0] = Starter(team)
            /\ next \in DOMAIN timeline
            /\ timeline[next] = edit.newValue

\* the outs the at-bats of column c record, rows r and below
RECURSIVE ColumnOuts(_, _, _)
ColumnOuts(g, c, r) ==
    IF r \notin DOMAIN g THEN 0
    ELSE (IF g[r][c] = <<>> THEN 0 ELSE parseNotation(g[r][c]).outs)
         + ColumnOuts(g, c, r + 1)

MaxHistory == 2

\* the entries of the cells: the positions of a roster, the pitcher entries
\* handlePositionSwap writes, and the empty text of a blank position cell
HistoryEntries == {P_SP, P_C, P_SS, <<"R", "P", "1">>, <<>>}

RECURSIVE JoinHistory(_)
\* the entries joined as appendPosition joins them
JoinHistory(entries) ==
    IF entries = <<>> THEN <<>>
    ELSE IF Len(entries) = 1 THEN entries[1]
    ELSE JoinHistory(SubSeq(entries, 1, Len(entries) - 1))
             \o <<" ", "/", " ">> \o entries[Len(entries)]

\* the position cells: histories as written, and the same with blanks around
HistoryCells ==
    LET written == {JoinHistory(h) : h \in UNION {[1..n -> HistoryEntries] :
                                                     n \in 0..MaxHistory}}
    IN  written \cup {<<" ">> \o c \o <<" ">> : c \in written}

AppendInit ==
    /\ IdleSheet
    /\ ipOuts = 0
    /\ ipValue = 0
    /\ pitcherCell = NoPitcherCells
    /\ edit = NoEdit
    /\ scriptLock = <<>>
    /\ onEditState = <<>>
    /\ replayCall = NoReplayCall
    /\ \E c \in HistoryCells : \E n \in HistoryEntries :
           appendCall = [currentValue |-> c, newPosition |-> n, result |-> <<"?">>]

\* the call appendPosition(currentValue, newPosition)
AppendPosition ==
    /\ appendCall.result = <<"?">>
    /\ appendCall' = [appendCall EXCEPT
                         !.result = appendPosition(appendCall.currentValue,
                                                   appendCall.newPosition)]
    /\ UNCHANGED <<names, positions, grid, sheetStats, rosterMap, playerStats,
                   battingTeam, pitcherTimeline, pitcherIndex, activePitcher,
                   previousPitcher, inheritedRunners, col, row, pc, outcome,
                   finalState, runs, outputs, handoff, ipOuts, ipValue,
                   pitcherCell, edit, scriptLock, onEditState, replayCall>>

AppendNext == AppendPosition

AppendSpec == AppendInit /\ [][AppendNext]_vars

\* the call has returned
Appended == appendCall.result # <<"?">>

\* what the call was given as the current value is empty or blank
AppendedToEmpty == IsBlank(appendCall.currentValue)

\* the position appended is the last entry of the history it was appended to
AppendedCurrent ==
    LET old == getPositionHistory(appendCall.currentValue)
    IN  old # <<>> /\ old[Len(old)] = appendCall.newPosition

\* C33: appendPosition given a position equal to the last entry of the
\* history returns a value with the same history; given any other position
\* and a history that is not empty it returns a value whose history is the
\* old history followed by the new position and whose current position is
\* the new position; given an empty value it returns the new position
C33_AppendGuardsDuplicates ==
    Appended =>
        LET old == getPositionHistory(appendCall.currentValue)
            new == getPositionHistory(appendCall.result)
        IN  /\ AppendedToEmpty => appendCall.result = appendCall.newPosition
            /\ ~AppendedToEmpty /\ AppendedCurrent => new = old
            /\ ~AppendedToEmpty /\ ~AppendedCurrent =>
                   /\ new = Append(old, appendCall.newPosition)
                   /\ getCurrentPosition(appendCall.result) = appendCall.newPosition

\* "SP / C" given "C" stays at two entries, and "SP / C" given "RP1" grows
C33_Witness ==
    /\ Appended
    /\ appendCall.currentValue = <<"S", "P", " ", "/", " ", "C">>
    /\ appendCall.newPosition = P_C
    /\ getPositionHistory(appendCall.result) = <<P_SP, P_C>>

(***************************************************************************)
(* Totals over a team: the sum of one counter over the players of the      *)
(* team that have an accumulator.                                          *)
(***************************************************************************)
RECURSIVE SumUpTo(_, _)
\* f[1] + ... + f[k]
SumUpTo(f, k) == IF k = 0 THEN 0 ELSE f[k] + SumUpTo(f, k - 1)

\* the runs charged to the pitchers of team
RunsCharged(ps, team) ==
    SumUpTo([i \in 1..Len(PlayerNames[team]) |-> RunsOf(ps, PlayerNames[team][i])],
            Len(PlayerNames[team]))

\* the runs batted in credited to the batters of team
RunsBattedInBy(ps, team) ==
    SumUpTo([i \in 1..Len(PlayerNames[team]) |->
                 HittingOf(ps, PlayerNames[team][i]).RBI],
            Len(PlayerNames[team]))

\* every row of the grid with an at-bat in it has a roster entry
EveryAtBatRowHasBatter ==
    \A r \in Rows : (\E c \in Cols : CellText(r, c) # <<>>) => RowHasBatter(r)

\* every timeline slot the replay has reached is filled
EverySlotReachedFilled ==
    \A k \in 0..pitcherIndex : TimelineAt(pitcherTimeline, k) # null

\* every pitcher the replay has replaced has a pitching record
EveryReplacedPitcherHasRecord ==
    \A k \in 0..(pitcherIndex - 1) :
        Has(playerStats, TimelineAt(pitcherTimeline, k), "pitching")

\* the replay of the grid has returned
Replayed == pc = "returned"

(***************************************************************************)
(* C36 (as stated): after the replay of a grid in which every at-bat row   *)
(* has a roster entry and every timeline slot reached is filled, the runs  *)
(* charged to the fielding team's pitchers add up to the runs batted in    *)
(* credited to the batting team's batters.                                 *)
(***************************************************************************)
C36_RunsConserved ==
    Replayed /\ EveryAtBatRowHasBatter /\ EverySlotReachedFilled =>
        RunsCharged(playerStats, fieldingTeam) = RunsBattedInBy(playerStats, battingTeam)

(***************************************************************************)
(* C36 (amended): a step of the replay made under an active pitcher adds   *)
(* as many runs to the pitchers as runs batted in to the batters, unless   *)
(* runners are inherited from a pitcher without a pitching record; so the  *)
(* totals agree after a replay in which, besides, every pitcher replaced   *)
(* has a pitching record.                                                  *)
(***************************************************************************)
C36_RunsConservedWithRecord ==
    /\ [](Replayed /\ EveryAtBatRowHasBatter /\ EverySlotReachedFilled
              /\ EveryReplacedPitcherHasRecord =>
          RunsCharged(playerStats, fieldingTeam)
              = RunsBattedInBy(playerStats, battingTeam))
    /\ [][activePitcher # null
              /\ (inheritedRunners = 0 \/ Has(playerStats', previousPitcher, "pitching")) =>
          RunsCharged(playerStats', fieldingTeam) - RunsCharged(playerStats, fieldingTeam)
              = RunsBattedInBy(playerStats', battingTeam)
                    - RunsBattedInBy(playerStats, battingTeam)]_vars

\* a replay with a pitching change that carried runners has returned, runs
\* were charged to the pitcher who left and to the one who came, and the
\* totals agree
C36_Witness ==
    /\ Replayed
    /\ EveryAtBatRowHasBatter /\ EverySlotReachedFilled /\ EveryReplacedPitcherHasRecord
    /\ pitcherIndex >= 1
    /\ RunsOf(playerStats, TimelineAt(pitcherTimeline, 0)) >= 2
    /\ RunsOf(playerStats, TimelineAt(pitcherTimeline, 1)) >= 1
    /\ RunsBattedInBy(playerStats, battingTeam) >= 3

(***************************************************************************)
(* The hitting totals as a function of the grid and the batting roster     *)
(* alone: every marker read with the digit 0, no timeline consulted.       *)
(***************************************************************************)
\* the text as parseNotation reads it, the digit of its marker replaced by 0
WithDigitZero(text) ==
    LET v == trim(toUpperCase(text))
    IN  IF HasToken(v, <<"P", "C">>, AnyDigit)
        THEN [v EXCEPT ![TokenAt(v, TokenStart(v, <<"P", "C">>, AnyDigit),
                                 <<"P", "C">>, AnyDigit)] = "0"]
        ELSE v

\* AB, H, HR, RBI, BB, K, DP, TB of a hitting accumulator
HittingTotals(h) == <<h.AB, h.H, h.HR, h.RBI, h.BB, h.K, h.DP, h.TB>>

\* what the text adds to the hitting totals of its row whoever pitches:
\* nothing when it is empty or a marker alone
HittingIncrements ==
    [t \in TotalsNotations |->
        LET s == parseNotation(WithDigitZero(t))
        IN  IF t = <<>> \/ (s.isPitcherChange /\ s.BF = 0)
            THEN <<0, 0, 0, 0, 0, 0, 0, 0>>
            ELSE <<s.AB, s.H, s.HR, s.R, s.BB, s.K, IF s.DP THEN 1 ELSE 0, s.TB>>]

\* the replay has passed cell (r, c)
Passed(r, c) == pc = "returned" \/ (pc = "cells" /\ Precedes(r, c, row, col))

\* what the cells of row r the replay has passed add, column by column
PassedIncrements(r) ==
    [k \in 1..NumInnings |->
        IF Passed(r, k - 1) THEN HittingIncrements[CellText(r, k - 1)]
        ELSE <<0, 0, 0, 0, 0, 0, 0, 0>>]

\* C38: the hitting totals (AB, H, HR, RBI, BB, K, DP, TB) of every batter
\* are, in every state of a replay, the totals of the cells of his row
\* passed so far, each read with the marker digit 0: they are the same for
\* every pitcher timeline of the fielding team and every digit in a marker
C38_HittingIgnoresPitchers ==
    \A r \in Rows :
        RowHasBatter(r) =>
            \E totals \in {HittingTotals(HittingOf(playerStats, RowBatter(r)))} :
            \E passed \in {PassedIncrements(r)} :
                \A j \in 1..8 :
                    totals[j] = SumUpTo([k \in 1..NumInnings |-> passed[k][j]],
                                        NumInnings)

\* a replay under an empty timeline has returned: a marker was passed, and
\* a batter has runs batted in that no pitcher was charged with
C38_Witness ==
    /\ Replayed
    /\ DOMAIN pitcherTimeline = {}
    /\ pitcherIndex >= 1
    /\ RowHasBatter(0)
    /\ HittingOf(playerStats, RowBatter(0)).RBI >= 2
    /\ RunsCharged(playerStats, fieldingTeam) = 0

(***************************************************************************)
(* The bounds between the counters of one accumulator, and the nice plays  *)
(* of one team against the robberies of the other.                         *)
(***************************************************************************)
\* the nice plays credited to the fielders of team
NicePlaysBy(ps, team) ==
    SumUpTo([i \in 1..Len(PlayerNames[team]) |->
                 FieldingOf(ps, PlayerNames[team][i]).NP],
            Len(PlayerNames[team]))

\* the times the batters of team reached via robbery
ReachedViaRobbery(ps, team) ==
    SumUpTo([i \in 1..Len(PlayerNames[team]) |->
                 HittingOf(ps, PlayerNames[team][i]).ROB],
            Len(PlayerNames[team]))

\* C39: in every state of a replay every pitching accumulator has
\* homeRuns <= hits <= battersFaced, walks <= battersFaced and
\* strikeouts <= battersFaced, every hitting accumulator has homeRuns <= hits
\* and hits <= totalBases <= 4 * hits, and the nice plays of the fielding
\* team add up to the reachedViaRobbery of the batting team
C39_CountersBounded ==
    /\ \A n \in DOMAIN playerStats :
           /\ \E p \in {PitchingOf(playerStats, n)} :
                  /\ p.HR <= p.H /\ p.H <= p.BF
                  /\ p.BB <= p.BF
                  /\ p.K <= p.BF
           /\ \E h \in {HittingOf(playerStats, n)} :
                  /\ h.HR <= h.H
                  /\ h.H <= h.TB /\ h.TB <= 4 * h.H
    /\ NicePlaysBy(playerStats, fieldingTeam) = ReachedViaRobbery(playerStats, battingTeam)

\* a pitcher has faced three batters, one of them walked and one hit a home
\* run, and the third was robbed by a nice play of the catcher
C39_Witness ==
    /\ activePitcher # null
    /\ \E p \in {PitchingOf(playerStats, activePitcher)} :
           p.BF = 3 /\ p.HR = 1 /\ p.H = 1 /\ p.BB = 1
    /\ NicePlaysBy(playerStats, fieldingTeam) = 1
    /\ ReachedViaRobbery(playerStats, battingTeam) = 1
    /\ \E n \in DOMAIN playerStats : HittingOf(playerStats, n).TB = 4

(***************************************************************************)
(* The relief numbers of a team after edits of the dropdowns.              *)
(***************************************************************************)
\* the rows whose position history, one of histories, holds the entry RPn
RowsWithRelief(histories, n) ==
    {i \in Rows :
        \E j \in 1..Len(histories[i]) :
            histories[i][j] = <<"R", "P">> \o NumberText(n)}

\* C37: after any sequence of dropdown changes, from position columns
\* without RP entries, the RP numbers in the position histories of each
\* team are 1..m without a gap, each in the history of one player only,
\* whatever was changed for the other team, and each is a slot of the
\* pitcher timeline of the team
C37_ReliefNumbersContiguous ==
    \A t \in Teams :
        \E numbers \in {ReliefNumbers(positions, t)} :
        \E histories \in {[i \in Rows |-> getPositionHistory(positions[t][i])]} :
        \E slots \in {DOMAIN buildPitcherTimeline(names, positions, t)} :
            /\ numbers = 1..Cardinality(numbers)
            /\ \A n \in numbers :
                   /\ Cardinality(RowsWithRelief(histories, n)) = 1
                   /\ n \in slots

\* each dropdown has been changed once: each team has its own RP1
C37_Witness ==
    /\ edit.count = 2
    /\ ReliefNumbers(positions, "away") = {1}
    /\ ReliefNumbers(positions, "home") = {1}
    /\ pitcherCell["away"] # names["away"][0]
    /\ pitcherCell["home"] # names["home"][0]

(***************************************************************************)
(* A game as it is scored: the scorer enters at-bats of the away team one  *)
(* after the other, each entry runs the bulk processor (processEdit,       *)
(* AUTO_PROCESS_ON_AT_BAT), changes the home team's pitcher dropdown, and  *)
(* runs the bulk processor from the menu.                                  *)
(***************************************************************************)
GameInit ==
    /\ names = [t \in Teams |-> FullNames(t)]
    /\ \E column \in {SetupColumn, FreshColumn} :
           positions = [t \in Teams |-> column]
    /\ grid = [t \in Teams |-> EmptyGrid]
    /\ sheetStats = ZeroSheetStats
    /\ rosterMap = EmptyObject
    /\ playerStats = EmptyObject
    /\ battingTeam = "away"
    /\ pitcherTimeline = EmptyObject
    /\ pitcherIndex = 0
    /\ activePitcher = null
    /\ previousPitcher = null
    /\ inheritedRunners = 0
    /\ col = 0
    /\ row = 0
    /\ pc = "idle"
    /\ handoff = NoHandoff
    /\ outcome = ZeroStats
    /\ finalState = [activePitcher |-> null, inheritedRunners |-> 0]
    /\ runs = 0
    /\ outputs = <<>>
    /\ ipOuts = 0
    /\ ipValue = 0
    /\ pitcherCell = [t \in Teams |-> names[t][0]]
    /\ edit = NoEdit
    /\ NoCalls

\* the cells of the away grid still empty
EmptyCells == {rc \in Rows \X Cols : grid["away"][rc[1]][rc[2]] = <<>>}

\* the scorer enters a single in the next cell of the away grid, and
\* processEdit starts the bulk processor
AtBatEdit ==
    /\ EmptyCells # {}
    /\ LET at == CHOOSE rc \in EmptyCells :
                     \A other \in EmptyCells :
                         other = rc \/ Precedes(rc[1], rc[2], other[1], other[2])
       IN  grid' = [grid EXCEPT !["away"][at[1]][at[2]] = <<"1", "B">>]
    /\ StartRun

\* the scorer changes the home team's dropdown to another name of the roster
HomePitcherEdit ==
    \E i \in Rows :
        /\ pc = "idle"
        /\ edit.count < MaxGameEdits
        /\ names["home"][i] # pitcherCell["home"]
        /\ PitcherCellEdited("home", names["home"][i])

\* every row has a name and every marker follows an at-bat in its cell, so
\* the replay meets no standalone marker and no row without batter
GameNext ==
    \/ AtBatEdit
    \/ HomePitcherEdit
    \/ BulkStart
    \/ SkipEmptyCell
    \/ AtBat
    \/ EndColumn
    \/ Return
    \/ BulkNextTeam
    \/ BulkWrite

GameSpec == GameInit /\ [][GameNext]_vars

\* the replay of the away grid has returned
AwayReplayed == pc = "returned" /\ battingTeam = "away"

(***************************************************************************)
(* C35: after any sequence of at-bat entries and changes of the fielding   *)
(* team's dropdown, the replay advances the pitcher index once for every   *)
(* change made, and ends with the player selected last as active pitcher.  *)
(***************************************************************************)
C35_AdvancesMatchChanges ==
    AwayReplayed =>
        /\ pitcherIndex = edit.count
        /\ activePitcher = pitcherCell["home"]

(***************************************************************************)
(* onEdit under the script lock (BoxScoreTriggers.js): every edit of the   *)
(* sheet starts an execution of onEdit; the executions run side by side    *)
(* and meet at LockService.getScriptLock().                                *)
(***************************************************************************)
\* edits of the sheet, each with its execution of onEdit
MaxLockEdits == 2

\* handlePositionSwap of this module: the new pitcher moves to P, the old
\* one to the position the new one had
handlePositionSwapToP(nm, pos, oldPitcher, newPitcher) ==
    IF oldPitcher = "" \/ newPitcher = "" \/ oldPitcher = newPitcher THEN pos
    ELSE LET newPitcherRow == findPlayerRowByName(nm, newPitcher)
             oldPitcherRow == findPlayerRowByName(nm, oldPitcher)
         IN  IF newPitcherRow = NotFound THEN pos
             ELSE IF oldPitcherRow = NotFound
             THEN [pos EXCEPT ![newPitcherRow[1]][newPitcherRow[2]] =
                       appendPosition(@, <<"P">>)]
             ELSE LET newPitcherPositionCell ==
                          pos[newPitcherRow[1]][newPitcherRow[2]]
                      oldPitcherPositionCell ==
                          pos[oldPitcherRow[1]][oldPitcherRow[2]]
                      newPitcherCurrentPos ==
                          getCurrentPosition(newPitcherPositionCell)
                      written == [pos EXCEPT ![newPitcherRow[1]][newPitcherRow[2]] =
                                      appendPosition(newPitcherPositionCell, <<"P">>)]
                  IN  [written EXCEPT ![oldPitcherRow[1]][oldPitcherRow[2]] =
                           appendPosition(oldPitcherPositionCell, newPitcherCurrentPos)]

\* a finally block that releases the lock whether or not it was acquired
releaseLockAlways(lock, lockAcquired) == <<>>

\* finally { if (lockAcquired) lock.releaseLock(); }
releaseLock(lock, lockAcquired) == IF lockAcquired THEN <<>> ELSE lock

\* what no execution of onEdit touches
lockIdleVars ==
    <<names, sheetStats, rosterMap, playerStats, battingTeam, pitcherTimeline,
      pitcherIndex, activePitcher, previousPitcher, inheritedRunners, col, row, pc,
      outcome, finalState, runs, outputs, handoff, ipOuts, ipValue, edit, appendCall,
      replayCall>>

LockInit ==
    /\ IdleSheet
    /\ ipOuts = 0
    /\ ipValue = 0
    /\ pitcherCell = [t \in Teams |-> names[t][0]]
    /\ edit = NoEdit
    /\ NoCalls

\* the executions of onEdit
Executions == 1..Len(onEditState)

\* the edit event e of a fresh execution, at the call of tryLock
Arrived(cell, oldValue, newValue) ==
    [at |-> "tryLock", lockAcquired |-> FALSE, cell |-> cell,
     oldValue |-> oldValue, newValue |-> newValue, result |-> "none"]

\* the scorer changes a pitcher dropdown: the cell takes the value, onEdit starts
PitcherCellEvent(cell, newValue) ==
    /\ Len(onEditState) < MaxLockEdits
    /\ newValue # pitcherCell[cell]
    /\ pitcherCell' = [pitcherCell EXCEPT ![cell] = newValue]
    /\ onEditState' = Append(onEditState, Arrived(cell, pitcherCell[cell], newValue))
    /\ UNCHANGED <<positions, grid, scriptLock>>
    /\ UNCHANGED lockIdleVars

\* the scorer enters a single in the next cell of the away grid: onEdit starts
AtBatCellEvent ==
    /\ Len(onEditState) < MaxLockEdits
    /\ EmptyCells # {}
    /\ LET at == CHOOSE rc \in EmptyCells :
                     \A other \in EmptyCells :
                         other = rc \/ Precedes(rc[1], rc[2], other[1], other[2])
       IN  grid' = [grid EXCEPT !["away"][at[1]][at[2]] = <<"1", "B">>]
    /\ onEditState' = Append(onEditState, Arrived("atBat", "", "1B"))
    /\ UNCHANGED <<positions, pitcherCell, scriptLock>>
    /\ UNCHANGED lockIdleVars

\* lock.tryLock(LOCK_TIMEOUT_MS) returns true
TryLock(e) ==
    /\ onEditState[e].at = "tryLock"
    /\ scriptLock = <<>>
    /\ scriptLock' = <<e>>
    /\ onEditState' = [onEditState EXCEPT ![e].lockAcquired = TRUE,
                                          ![e].at = "processEdit"]
    /\ UNCHANGED <<positions, grid, pitcherCell>>
    /\ UNCHANGED lockIdleVars

\* lock.tryLock returns false, another execution having held the lock for
\* the whole timeout: the alert, the warning, return
LockTimeout(e) ==
    /\ onEditState[e].at = "tryLock"
    /\ scriptLock # <<>>
    /\ onEditState' = [onEditState EXCEPT ![e].at = "finally",
                                          ![e].result = "dropped"]
    /\ UNCHANGED <<positions, grid, pitcherCell, scriptLock>>
    /\ UNCHANGED lockIdleVars

\* processEdit returns: the position swap for a changed dropdown, nothing
\* for an at-bat cell
ProcessEdit(e) ==
    /\ onEditState[e].at = "processEdit"
    /\ LET ev == onEditState[e]
       IN  positions' =
               IF ev.cell \in Teams
               THEN handlePositionSwapToP(names, positions, ev.oldValue, ev.newValue)
               ELSE positions
    /\ onEditState' = [onEditState EXCEPT ![e].at = "finally",
                                          ![e].result = "processed"]
    /\ UNCHANGED <<grid, pitcherCell, scriptLock>>
    /\ UNCHANGED lockIdleVars

\* processEdit throws before it writes: the catch block logs and alerts
ProcessEditThrows(e) ==
    /\ onEditState[e].at = "processEdit"
    /\ onEditState' = [onEditState EXCEPT ![e].at = "finally",
                                          ![e].result = "failed"]
    /\ UNCHANGED <<positions, grid, pitcherCell, scriptLock>>
    /\ UNCHANGED lockIdleVars

\* the finally block, then onEdit is over
Finally(e) ==
    /\ onEditState[e].at = "finally"
    /\ scriptLock' = releaseLock(scriptLock, onEditState[e].lockAcquired)
    /\ onEditState' = [onEditState EXCEPT ![e].at = "done"]
    /\ UNCHANGED <<positions, grid, pitcherCell>>
    /\ UNCHANGED lockIdleVars

LockNext ==
    \/ \E cell \in Teams : \E i \in Rows : PitcherCellEvent(cell, names[cell][i])
    \/ AtBatCellEvent
    \/ \E e \in Executions : TryLock(e)
    \/ \E e \in Executions : LockTimeout(e)
    \/ \E e \in Executions : ProcessEdit(e)
    \/ \E e \in Executions : ProcessEditThrows(e)
    \/ \E e \in Executions : Finally(e)

LockSpec == LockInit /\ [][LockNext]_vars

\* the executions that are inside processEdit
Processing == {e \in Executions : onEditState[e].at = "processEdit"}

\* execution e leaves its finally block in this step
Leaves(e) ==
    /\ e \in Executions
    /\ onEditState[e].at = "finally"
    /\ onEditState'[e].at = "done"

UnlockedPitcherEdit ==
    \E i \in Rows :
        /\ pc = "idle" \/ AwayReplayed
        /\ edit.count < MaxGameEdits
        /\ names["home"][i] # pitcherCell["home"]
        /\ PitcherCellEdited("home", names["home"][i])

RaceNext ==
    \/ AtBatEdit
    \/ UnlockedPitcherEdit
    \/ BulkStart
    \/ SkipEmptyCell
    \/ AtBat
    \/ EndColumn
    \/ Return
    \/ BulkNextTeam
    \/ BulkWrite

RaceSpec == GameInit /\ [][RaceNext]_vars

(***************************************************************************)
(* C31: grid mutations never interleave with a replay: from the moment the *)
(* bulk processor clears the stat blocks until it has written them, no     *)
(* edit handler runs, so the grid and the position column stay as they     *)
(* were when the processor read them.                                      *)
(***************************************************************************)
C31_NoEditDuringReplay ==
    [][pc # "idle" => /\ edit' = edit
                      /\ grid' = grid
                      /\ positions' = positions]_vars

(***************************************************************************)
(* processTeamAtBats called on arguments of any shape: a grid whose rows   *)
(* end at different columns, a roster map that is null.                    *)
(***************************************************************************)
\* cells of the grid passed to processTeamAtBats that are filled
MaxContractFilled == 3

ContractNotations == {<<>>, N_1B_RBI, N_PC1}

\* the rows of g cut to the lengths len
RaggedRows(g, len) == [r \in Rows |-> [c \in 0..(len[r] - 1) |-> g[r][c]]]

\* the grids passed: row 0 spans every column, the rows below end anywhere
RaggedGrids ==
    {RaggedRows(g, len) :
         g \in Grids(MaxContractFilled, ContractNotations),
         len \in {l \in [Rows -> 0..NumInnings] : l[0] = NumInnings}}

\* var value = atBatGrid[row][col], for col < atBatGrid[0].length: undefined
\* past the end of a row, which `!value` skips as it skips the empty text
ReadCells(atBatGrid) ==
    [r \in Rows |-> [c \in Cols |->
        IF c \in DOMAIN atBatGrid[r] THEN atBatGrid[r][c] ELSE <<>>]]

\* the grid has rows of unequal length, or the roster map is null
ContractViolated ==
    \/ replayCall.rosterMap = "null"
    \/ \E r \in Rows : DOMAIN replayCall.atBatGrid[r] # DOMAIN replayCall.atBatGrid[0]

\* processTeamAtBats(sheet, atBatGrid, 'away', rosterMap, {}) is entered
ContractInit ==
    /\ names = [t \in Teams |-> FullNames(t)]
    /\ positions = [t \in Teams |-> IF t = "away" THEN FreshColumn
                                    ELSE FullTimelineColumn]
    /\ sheetStats = ZeroSheetStats
    /\ playerStats = EmptyObject
    /\ AtTeamEntry("away")
    /\ outcome = ZeroStats
    /\ finalState = [activePitcher |-> null, inheritedRunners |-> 0]
    /\ runs = 0
    /\ outputs = <<>>
    /\ ipOuts = 0
    /\ ipValue = 0
    /\ pitcherCell = NoPitcherCells
    /\ edit = NoEdit
    /\ appendCall = NoCall
    /\ scriptLock = <<>>
    /\ onEditState = <<>>
    /\ \E roster \in {"object", "null"} : \E atBatGrid \in RaggedGrids :
           /\ replayCall = [atBatGrid |-> atBatGrid, rosterMap |-> roster,
                            error |-> "none"]
           /\ rosterMap = IF roster = "null" THEN null
                          ELSE buildRosterMap(names, positions)
           /\ grid = [t \in Teams |-> IF t = "away" THEN ReadCells(atBatGrid)
                                      ELSE EmptyGrid]

\* an at-bat cell, the roster map being an object
AtBatWithRoster ==
    /\ replayCall.rosterMap = "object"
    /\ AtBat

\* an at-bat cell, the roster map being null: Object.keys(rosterMap) throws
AtBatThrows ==
    /\ replayCall.rosterMap = "null"
    /\ InCell
    /\ value # <<>>
    /\ ~isStandalonePitcherChange
    /\ replayCall' = [replayCall EXCEPT !.error = "TypeError"]
    /\ pc' = "thrown"
    /\ outcome' = stats
    /\ UNCHANGED <<sheetVars, bulkVars, playerStats, battingTeam, pitcherTimeline,
                   pitcherIndex, activePitcher, previousPitcher, inheritedRunners,
                   col, row, finalState, handoff>>
    /\ UNCHANGED <<ipOuts, ipValue, pitcherCell, edit, appendCall, scriptLock,
                   onEditState>>

\* every row has a name, so the replay meets no row without batter
ContractNext ==
    \/ SkipEmptyCell
    \/ StandalonePitcherChange
    \/ AtBatWithRoster
    \/ AtBatThrows
    \/ EndColumn
    \/ Return

ContractSpec == ContractInit /\ [][ContractNext]_vars

====
